---- MODULE Spec2Model ----
(***************************************************************************)
(* Model of the firewall rule-application engine (src/src/iptables.rs,     *)
(* src/src/executor.rs, src/src/shell_quote.rs): the primitive actions and *)
(* their deletion sequences, the argument vector of a rule, the            *)
(* interpretation of a runner's result, and IptablesWriter::execute as a   *)
(* state machine that issues one command per step to an executor whose     *)
(* answers are chosen nondeterministically.                                *)
(*                                                                         *)
(* Rust enums are modelled as tuples <<"Variant", payload...>>, Rust       *)
(* Strings as TLA+ strings, Vec<T> as sequences.                           *)
(***************************************************************************)
EXTENDS Integers, Sequences, FiniteSets, TLC

VARIABLES
    iptables_cmd,   \* IptablesWriter.iptables_cmd
    actions,        \* IptablesWriter.actions: Seq of <<AnyAction, Rule, RecreatingMode>>
    pc,             \* "idle", "run", "returned" or "panicked"; "pure" in SpecPure
    want,           \* the Effect execute was called with
    verbose_output, \* the verbose_output argument: None, or Some of a writer
    creation,       \* the creation argument of the running pass (closure run)
    idx,            \* number of items the pass's iterator has yielded so far
    cur,            \* index into actions of the item the inner loop works on
    steps,          \* what is left of the inner actions vector (for action in actions)
    calls,          \* log of the calls the executor received, oldest first, each with
                    \* the executor as it was before the call
    last,           \* Some of the ExecutorResult of the last call, None before
    interp,         \* the ResultInterpretation the last call's result was matched as
    ret,            \* what execute returned: <<"Ok">> or <<"Err", text>>; <<>> before
    fn_arg,         \* SpecPure: the input a pure function was applied to
    fn_ret,         \* SpecPure: what it returned
    executor,       \* the executor argument of execute, with the state it holds
    done,           \* the earlier calls of execute on this writer: Seq of [want, calls, ret,
                    \* executor], executor as execute left it
    other           \* SpecRace: a second process in execute on the same list, while it
                    \* does not run: its pc, want, verbose_output, creation, idx, cur,
                    \* steps, calls, last, interp and ret

vars == <<iptables_cmd, actions, pc, want, verbose_output, creation, idx, cur, steps,
          calls, last, interp, ret, fn_arg, fn_ret, executor, done, other>>

-----------------------------------------------------------------------------
(* Bounds of the model. *)

\* longest list of pending operations
MaxOps == 2
\* largest number of rules in a chain of a table execute may find
MaxRules == 2
\* largest number of calls of execute on one writer
MaxRuns == 2
\* largest exit code SpecPure interprets
MaxExitCode == 5
\* largest position SpecPure gives Action::Insert
MaxInsert == 12
\* largest number of restrictions of a rule SpecArgs gives Rule::cmd_args
MaxRestrictions == 2

-----------------------------------------------------------------------------
(* Text helpers: what Rust's string formatting does. *)

Digits == "0123456789"
UpperChars == "ABCDEFGHIJKLMNOPQRSTUVWXYZ"
LowerChars == "abcdefghijklmnopqrstuvwxyz"

CharAt(s, i) == SubSeq(s, i, i)

\* format!("{n}") / n.to_string() of an integer
RECURSIVE NatToString(_)
NatToString(n) ==
    IF n < 10 THEN CharAt(Digits, n + 1)
    ELSE NatToString(n \div 10) \o CharAt(Digits, (n % 10) + 1)

IntToString(n) == IF n < 0 THEN "-" \o NatToString(0 - n) ELSE NatToString(n)

CharsOf(s) == {CharAt(s, i) : i \in 1..Len(s)}

UpperSet == CharsOf(UpperChars)
LowerOf == [c \in UpperSet |->
               CharAt(LowerChars, CHOOSE i \in 1..Len(UpperChars) : CharAt(UpperChars, i) = c)]

\* char::to_ascii_lowercase
LowerChar(c) == IF c \in UpperSet THEN LowerOf[c] ELSE c

\* str::to_lowercase / to_ascii_lowercase (ASCII input), from the i-th character on
RECURSIVE ToLowercaseFrom(_, _)
ToLowercaseFrom(s, i) ==
    IF i > Len(s) THEN ""
    ELSE LowerChar(CharAt(s, i)) \o ToLowercaseFrom(s, i + 1)

ToLowercase(s) == ToLowercaseFrom(s, 1)

\* str::contains(&str)
StrContains(hay, needle) ==
    \E i \in 1..(Len(hay) - Len(needle) + 1) :
        SubSeq(hay, i, i + Len(needle) - 1) = needle

-----------------------------------------------------------------------------
(* Primitive actions. *)

AppendAction == <<"Append">>
Insert(n) == <<"Insert", n>>
NewChain == <<"NewChain">>

Delete == <<"Delete">>
DeleteChain == <<"DeleteChain">>
Flush == <<"Flush">>

DeletionActions == {Delete, DeleteChain, Flush}

Check == <<"Check">>
Creation(a) == <<"Creation", a>>
Deletion(d) == <<"Deletion", d>>

\* impl From<Action> for AnyAction
FromAction(a) == Creation(a)

\* impl From<DeletionAction> for AnyAction
FromDeletionAction(d) == Deletion(d)

\* Action::push_args
ActionPushArgs(a, chain_name, out) ==
    CASE a[1] = "Append"   -> out \o <<"-A", chain_name>>
      [] a[1] = "Insert"   -> out \o <<"-I", chain_name>> \o <<NatToString(a[2])>>
      [] a[1] = "NewChain" -> out \o <<"-N", chain_name>>

\* DeletionSequence with the chain deleted before it is flushed
DeletionSequenceChainFirst(a) ==
    CASE a[1] = "Append"   -> <<Delete>>
      [] a[1] = "Insert"   -> <<Delete>>
      [] a[1] = "NewChain" -> <<DeleteChain, Flush>>

\* Action::deletion_sequence
DeletionSequence(a) ==
    CASE a[1] = "Append"   -> <<Delete>>
      [] a[1] = "Insert"   -> <<Delete>>
      [] a[1] = "NewChain" -> <<Flush, DeleteChain>>

\* DeletionActionPushArgs with Delete by rule number instead of by specification
DeletionActionPushArgsByNumber(d, chain_name, out) ==
    CASE d = Delete      -> out \o <<"-D", chain_name, "1">>
      [] d = DeleteChain -> out \o <<"-X", chain_name>>
      [] d = Flush       -> out \o <<"-F", chain_name>>

\* DeletionAction::push_args
DeletionActionPushArgs(d, chain_name, out) ==
    CASE d = Delete      -> out \o <<"-D", chain_name>>
      [] d = DeleteChain -> out \o <<"-X", chain_name>>
      [] d = Flush       -> out \o <<"-F", chain_name>>

\* AnyAction::push_args
AnyActionPushArgs(any, chain_name, out) ==
    CASE any[1] = "Check"    -> out \o <<"-C", chain_name>>
      [] any[1] = "Creation" -> ActionPushArgs(any[2], chain_name, out)
      [] any[1] = "Deletion" -> DeletionActionPushArgs(any[2], chain_name, out)

\* AnyAction::is_creation
IsCreation(any) ==
    CASE any[1] = "Check"    -> FALSE
      [] any[1] = "Creation" -> TRUE
      [] any[1] = "Deletion" -> FALSE

\* derive(Debug) of Action, DeletionAction and AnyAction, as {action:?} prints them
DebugAction(a) ==
    CASE a[1] = "Append"   -> "Append"
      [] a[1] = "Insert"   -> "Insert(" \o NatToString(a[2]) \o ")"
      [] a[1] = "NewChain" -> "NewChain"

DebugAnyAction(any) ==
    CASE any[1] = "Check"    -> "Check"
      [] any[1] = "Creation" -> "Creation(" \o DebugAction(any[2]) \o ")"
      [] any[1] = "Deletion" -> "Deletion(" \o any[2][1] \o ")"

-----------------------------------------------------------------------------
(* Chains, restrictions, rule targets, rules. *)

\* a chain is <<TypeName, Variant>> or <<TypeName, "Custom", name>>
Builtin(table, name) == <<table, name>>
Custom(table, name) == <<table, "Custom", name>>

\* TablechainTrait::chain_name (def_chain!)
ChainName(c) == IF c[2] = "Custom" THEN c[3] ELSE c[2]

\* TablechainTrait::table_and_chain_names (def_chain!)
TableAndChainNames(c) == <<ToLowercase(c[1]), ChainName(c)>>

\* TablechainTrait::push_args
ChainPushArgs(c, any, out) ==
    LET names == TableAndChainNames(c)
    IN  AnyActionPushArgs(any, names[2], out \o <<"-t", names[1]>>)

Is == "Is"
IsNot == "IsNot"

\* Negatable::push_args
NegatablePushArgs(neg, out) ==
    CASE neg = Is    -> out
      [] neg = IsNot -> out \o <<"!">>

\* Ipv4Net::to_string of <<a, b, c, d, prefix_len>>
NetToString(net) ==
    NatToString(net[1]) \o "." \o NatToString(net[2]) \o "." \o NatToString(net[3])
        \o "." \o NatToString(net[4]) \o "/" \o NatToString(net[5])

\* Restriction::push_args
RestrictionPushArgs(r, out) ==
    CASE r[1] = "Interface" ->
            NegatablePushArgs(r[2], out \o <<"-i">>) \o <<r[3]>>
      [] r[1] = "Protocol" ->
            NegatablePushArgs(r[2], out \o <<"-p">>) \o <<ToLowercase(r[3])>>
      [] r[1] = "SourceAddress" ->
            NegatablePushArgs(r[2], out \o <<"-s">>) \o <<NetToString(r[3])>>
      [] r[1] = "DestinationAddress" ->
            NegatablePushArgs(r[2], out \o <<"-d">>) \o <<NetToString(r[3])>>
      [] r[1] = "SourcePort" ->
            NegatablePushArgs(r[2], out \o <<"--sport">>) \o <<NatToString(r[3])>>
      [] r[1] = "DestinationPort" ->
            NegatablePushArgs(r[2], out \o <<"--dport">>) \o <<NatToString(r[3])>>
      [] r[1] = "Custom" -> out \o r[2]

\* RuleAction::push_args
RuleActionPushArgs(ra, out) ==
    CASE ra[1] = "None"   -> out
      [] ra[1] = "Return" -> out \o <<"-j", "RETURN">>
      [] ra[1] = "Drop"   -> out \o <<"-j", "DROP">>
      [] ra[1] = "Reject" -> out \o <<"-j", "REJECT">>
      [] ra[1] = "Jump"   -> out \o <<"-j", ChainName(ra[2])>>
      [] ra[1] = "Goto"   -> out \o <<"-g", ChainName(ra[2])>>

RECURSIVE RestrictionsPushArgs(_, _)
RestrictionsPushArgs(rs, out) ==
    IF rs = <<>> THEN out
    ELSE RestrictionsPushArgs(Tail(rs), RestrictionPushArgs(Head(rs), out))

\* Rule::cmd_args
CmdArgs(rule, any) ==
    RuleActionPushArgs(rule.rule_action,
        RestrictionsPushArgs(rule.restrictions,
            ChainPushArgs(rule.chain, any, <<>>)))

-----------------------------------------------------------------------------
(* Shell quoting (src/src/shell_quote.rs). *)

SAFE_CHARS == {"_", "=", "-", "/", "+", "%", ".", ",", ":"}

AsciiAlphanumerics == CharsOf(Digits) \cup CharsOf(UpperChars) \cup CharsOf(LowerChars)

\* char::is_ascii_alphanumeric
IsAsciiAlphanumeric(c) == c \in AsciiAlphanumerics

is_quote_safe(c) == IsAsciiAlphanumeric(c) \/ c \in SAFE_CHARS

shell_quote_without_singlequote(s) ==
    IF \A i \in 1..Len(s) : is_quote_safe(CharAt(s, i))
    THEN s
    ELSE "'" \o s \o "'"

\* str::split('\''): the pieces between single quotes, at least one piece; the
\* piece being read starts at character from, the scan is at character i
RECURSIVE SplitSingleQuoteFrom(_, _, _)
SplitSingleQuoteFrom(s, from, i) ==
    IF i > Len(s) THEN <<SubSeq(s, from, Len(s))>>
    ELSE IF CharAt(s, i) = "'"
         THEN <<SubSeq(s, from, i - 1)>> \o SplitSingleQuoteFrom(s, i + 1, i + 1)
         ELSE SplitSingleQuoteFrom(s, from, i + 1)

SplitSingleQuote(s) == SplitSingleQuoteFrom(s, 1, 1)

RECURSIVE JoinQuotedRest(_, _)
JoinQuotedRest(out, rest) ==
    IF rest = <<>> THEN out
    ELSE JoinQuotedRest(out \o "\\" \o "'" \o shell_quote_without_singlequote(Head(rest)),
                        Tail(rest))

shell_quote(s) ==
    IF Len(s) = 0 THEN "''"
    ELSE LET parts == SplitSingleQuote(s)
             part0 == shell_quote_without_singlequote(Head(parts))
             rest  == Tail(parts)
         IN  IF rest = <<>> THEN part0 ELSE JoinQuotedRest(part0, rest)

RECURSIVE ShellQuoteManyFrom(_, _, _)
ShellQuoteManyFrom(ss, out, is_first) ==
    IF ss = <<>> THEN out
    ELSE ShellQuoteManyFrom(Tail(ss),
                            (IF is_first THEN out ELSE out \o " ") \o shell_quote(Head(ss)),
                            FALSE)

shell_quote_many(ss) == ShellQuoteManyFrom(ss, "", TRUE)

-----------------------------------------------------------------------------
(* The executor's result and its interpretation. *)

\* ExecutorStatus
Success == <<"Success">>
ExitCode(code) == <<"ExitCode", code>>
Signal(sig) == <<"Signal", sig>>
ExecFailure(e) == <<"ExecFailure", e>>

\* ExecutorResult
ExecutorResult(cmd, status, combined_output) ==
    [cmd |-> cmd, status |-> status, combined_output |-> combined_output]

\* The character U+0060 cannot be written in a TLA+ string: this stands for it in
\* the text bail! formats.
Backtick == "<backtick>"

None == <<"None">>
Some(x) == <<"Some", x>>

\* ExecutorResult::to_anyhow: <<"Ok">>, or <<"Err", text>> where bail! is reached
to_anyhow(result, msg) ==
    LET _msg == IF msg[1] = "Some" THEN " " \o msg[2] ELSE ""
        status == result.status
    IN  CASE status[1] = "Success" -> <<"Ok">>
          [] status[1] = "ExitCode" ->
                <<"Err", "command " \o Backtick \o shell_quote_many(result.cmd)
                         \o Backtick \o " exited with code " \o IntToString(status[2]) \o _msg
                         \o ": " \o result.combined_output>>
          [] status[1] = "Signal" ->
                <<"Err", "command " \o Backtick \o shell_quote_many(result.cmd)
                         \o Backtick \o " was killed by signal " \o IntToString(status[2]) \o _msg
                         \o ": " \o result.combined_output>>
          [] status[1] = "ExecFailure" ->
                <<"Err", "command " \o Backtick \o shell_quote_many(result.cmd)
                         \o Backtick \o " could not be started" \o _msg \o ": " \o status[2]>>

\* Interpretation with the test of exit codes 1 and 2 ahead of the tests of the text
InterpretationCodesFirst(result) ==
    LET status == result.status
    IN  CASE status[1] = "Success" -> "Ok"
          [] status[1] = "ExitCode" ->
                IF status[2] = 1 \/ status[2] = 2
                THEN "OkForDeletions"
                ELSE IF /\ status[2] = 4
                        /\ StrContains(result.combined_output,
                                       "CHAIN_DEL failed (Device or resource busy)")
                THEN "ChainInUse"
                ELSE IF /\ status[2] = 1
                        /\ StrContains(result.combined_output, "Chain already exists")
                THEN "ChainAlreadyExists"
                ELSE "Err"
          [] status[1] = "Signal" -> "Err"
          [] status[1] = "ExecFailure" -> "Err"

\* impl From<&ExecutorResult> for ResultInterpretation
Interpretation(result) ==
    LET status == result.status
    IN  CASE status[1] = "Success" -> "Ok"
          [] status[1] = "ExitCode" ->
                IF /\ status[2] = 4
                   /\ StrContains(result.combined_output,
                                  "CHAIN_DEL failed (Device or resource busy)")
                THEN "ChainInUse"
                ELSE IF /\ status[2] = 1
                        /\ StrContains(result.combined_output, "Chain already exists")
                THEN "ChainAlreadyExists"
                ELSE IF status[2] = 1 \/ status[2] = 2
                THEN "OkForDeletions"
                ELSE "Err"
          [] status[1] = "Signal" -> "Err"
          [] status[1] = "ExecFailure" -> "Err"

-----------------------------------------------------------------------------
(* The inputs the model draws from. *)

Owned == "Owned"
TryCreationNoDeletion == "TryCreationNoDeletion"

Effects == {"Creation", "Recreation", "Deletion"}

Rule(chain, restrictions, rule_action) ==
    [chain |-> chain, restrictions |-> restrictions, rule_action |-> rule_action]

our_chain == Custom("Filter", "our-chain")

\* the rules of example() in src/src/bin/main.rs
ChainRule == Rule(our_chain, <<>>, <<"None">>)
JumpRule == Rule(Builtin("Filter", "INPUT"), <<>>, <<"Jump", our_chain>>)
PortRule ==
    Rule(our_chain,
         << <<"Interface", Is, "eth42">>, <<"Protocol", Is, "Tcp">>,
            <<"DestinationPort", Is, 22>> >>,
         <<"Return">>)
RejectRule == Rule(our_chain, << <<"Interface", IsNot, "eth42">> >>, <<"Reject">>)

\* what push is called with: <<Action, Rule, RecreatingMode>>
PushInputs ==
    {<<NewChain, ChainRule, Owned>>,
     <<Insert(1), JumpRule, Owned>>,
     <<AppendAction, PortRule, Owned>>,
     <<AppendAction, RejectRule, TryCreationNoDeletion>>}

\* what _push is called with directly: <<AnyAction, Rule, RecreatingMode>>
UnderscorePushInputs ==
    {<<Check, PortRule, Owned>>,
     <<Deletion(Delete), PortRule, TryCreationNoDeletion>>}

\* what an executor answers a call with: <<ExecutorStatus, combined_output>>
ExecutorAnswers ==
    {<<Success, "">>,
     <<ExitCode(1), "">>,
     <<ExitCode(2), "">>,
     <<ExitCode(1), "iptables: Chain already exists.">>,
     <<ExitCode(4), ".. CHAIN_DEL failed (Device or resource busy) ..">>,
     <<ExitCode(4), "">>,
     <<Signal(9), "">>,
     <<ExecFailure("No such file or directory (os error 2)"), "">>}

\* an Executor about which nothing is known but the trait: it may answer a call with
\* any result
AnyExecutor == <<"Any">>

\* DryExecutor
DryExecutor == <<"Dry">>

\* MockExecutor(entries), entries a sequence of <<arg, ExecutorStatus, output>>
MockExecutor(entries) == <<"Mock", entries>>

\* the elements of a sequence
Range(q) == {q[i] : i \in 1..Len(q)}

\* MockExecutor::execute: the status and output of the first entry whose arg is one of
\* the words of cmd, success without output when there is none
MockExecute(entries, cmd) ==
    LET hits == {i \in 1..Len(entries) : entries[i][1] \in Range(cmd)}
    IN  IF hits = {} THEN <<Success, "">>
        ELSE LET i == CHOOSE h \in hits : \A g \in hits : h <= g
             IN  <<entries[i][2], entries[i][3]>>

\* RealExecutor, with the table of the packet filter that the commands it runs act on:
\* a function from the names of the chains that exist to their rules, a rule being the
\* words of its specification
RealExecutor(table) == <<"Real", table>>

\* the chains of the filter table that always exist
BuiltinChains == {"INPUT", "FORWARD", "OUTPUT"}

\* the targets that are not chains
BuiltinTargets == {"ACCEPT", "DROP", "REJECT", "RETURN"}

EmptyTable == [c \in BuiltinChains |-> <<>>]

\* the chains a rule jumps or goes to
TargetChains(rule) ==
    {rule[i + 1] : i \in {j \in 1..(Len(rule) - 1) : rule[j] \in {"-j", "-g"}}}
        \ BuiltinTargets

\* some rule of the table jumps or goes to chain c
Referenced(table, c) ==
    \E ch \in DOMAIN table : \E i \in 1..Len(table[ch]) : c \in TargetChains(table[ch][i])

\* the number a decimal numeral stands for
RECURSIVE ParseNat(_)
ParseNat(str) ==
    IF Len(str) = 0 THEN 0
    ELSE LET d == CHOOSE k \in 0..9 : CharAt(Digits, k + 1) = CharAt(str, Len(str))
         IN  10 * ParseNat(SubSeq(str, 1, Len(str) - 1)) + d

\* rules without the first rule equal to rule
RemoveFirst(rules, rule) ==
    LET i == CHOOSE k \in 1..Len(rules) :
                 rules[k] = rule /\ \A m \in 1..(k - 1) : rules[m] # rule
    IN  SubSeq(rules, 1, i - 1) \o SubSeq(rules, i + 1, Len(rules))

\* rules with rule put in at the 1-based position n
InsertAt(rules, n, rule) ==
    SubSeq(rules, 1, n - 1) \o <<rule>> \o SubSeq(rules, n, Len(rules))

\* the answers to a command that names a chain or target that does not exist: exit
\* code 1 or 2
NoSuchChain(table) ==
    {<<ExitCode(c), "iptables: No chain/target/match by that name.", table>> : c \in {1, 2}}

\* what the tool does with a command on a table: the answers <<ExecutorStatus,
\* combined_output, table after the command>>.  -D deletes the first rule of the chain
\* equal to the specification; a failing command leaves the table as it is.
TableExecute(table, cmd) ==
    LET op == cmd[4]
        c == cmd[5]
        rest == SubSeq(cmd, 6, Len(cmd))
        With(ch, rules) == [x \in DOMAIN table \cup {ch} |-> IF x = ch THEN rules ELSE table[x]]
    IN  CASE op = "-N" ->
                IF c \in DOMAIN table
                THEN {<<ExitCode(1), "iptables: Chain already exists.", table>>}
                ELSE {<<Success, "", With(c, <<>>)>>}
          [] op = "-A" ->
                IF c \notin DOMAIN table \/ ~(TargetChains(rest) \subseteq DOMAIN table)
                THEN NoSuchChain(table)
                ELSE {<<Success, "", With(c, Append(table[c], rest))>>}
          [] op = "-I" ->
                IF c \notin DOMAIN table \/ ~(TargetChains(Tail(rest)) \subseteq DOMAIN table)
                THEN NoSuchChain(table)
                ELSE IF ParseNat(rest[1]) = 0
                THEN {<<ExitCode(2), "iptables: Invalid rule number", table>>}
                ELSE IF ParseNat(rest[1]) > Len(table[c]) + 1
                THEN {<<ExitCode(1), "iptables: Index of insertion too big.", table>>}
                ELSE {<<Success, "", With(c, InsertAt(table[c], ParseNat(rest[1]), Tail(rest)))>>}
          [] op = "-D" ->
                IF c \notin DOMAIN table THEN NoSuchChain(table)
                ELSE IF \A i \in 1..Len(table[c]) : table[c][i] # rest
                THEN {<<ExitCode(1),
                        "iptables: Bad rule (does a matching rule exist in that chain?).",
                        table>>}
                ELSE {<<Success, "", With(c, RemoveFirst(table[c], rest))>>}
          [] op = "-F" ->
                IF c \notin DOMAIN table THEN NoSuchChain(table)
                ELSE {<<Success, "", With(c, <<>>)>>}
          [] op = "-X" ->
                IF c \notin DOMAIN table \/ c \in BuiltinChains THEN NoSuchChain(table)
                ELSE IF Referenced(table, c)
                THEN {<<ExitCode(4),
                        "iptables: CHAIN_DEL failed (Device or resource busy).", table>>}
                ELSE IF table[c] # <<>>
                THEN {<<ExitCode(1), "iptables: Directory not empty.", table>>}
                ELSE {<<Success, "", [x \in DOMAIN table \ {c} |-> table[x]]>>}
          [] op = "-C" ->
                IF c \notin DOMAIN table THEN NoSuchChain(table)
                ELSE IF \E i \in 1..Len(table[c]) : table[c][i] = rest
                THEN {<<Success, "", table>>}
                ELSE {<<ExitCode(1),
                        "iptables: Bad rule (does a matching rule exist in that chain?).",
                        table>>}

\* Executor::execute: the answers <<ExecutorStatus, combined_output, executor after the
\* call>> an executor can give to cmd
ExecutorExecute(ex, cmd) ==
    CASE ex[1] = "Any"  -> {<<a[1], a[2], ex>> : a \in ExecutorAnswers}
      [] ex[1] = "Dry"  -> {<<Success, "", ex>>}
      [] ex[1] = "Mock" -> {<<MockExecute(ex[2], cmd)[1], MockExecute(ex[2], cmd)[2], ex>>}
      [] ex[1] = "Real" -> {<<a[1], a[2], RealExecutor(a[3])>> : a \in TableExecute(ex[2], cmd)}

\* the writers execute is handed: one whose writes succeed (a Vec, stderr) and one
\* whose writes fail
Writers == {"writable", "failing"}

-----------------------------------------------------------------------------
(* IptablesWriter. *)

\* a process that has not called execute
NotStarted ==
    [pc |-> "idle", want |-> "Creation", verbose_output |-> None, creation |-> FALSE,
     idx |-> 0, cur |-> 0, steps |-> <<>>, calls |-> <<>>, last |-> None,
     interp |-> "none", ret |-> <<>>]

\* IptablesWriter::new
Init ==
    /\ iptables_cmd = <<"ip6tables">>
    /\ actions = <<>>
    /\ pc = "idle"
    /\ want = "Creation"
    /\ verbose_output = None
    /\ creation = FALSE
    /\ idx = 0
    /\ cur = 0
    /\ steps = <<>>
    /\ calls = <<>>
    /\ last = None
    /\ interp = "none"
    /\ ret = <<>>
    /\ fn_arg = <<>>
    /\ fn_ret = <<>>
    /\ executor = AnyExecutor
    /\ done = <<>>
    /\ other = NotStarted

\* IptablesWriter::_push
UnderscorePush(action, rule, recreating_mode) ==
    /\ pc = "idle"
    /\ actions' = Append(actions, <<action, rule, recreating_mode>>)
    /\ UNCHANGED <<iptables_cmd, pc, want, verbose_output, creation, idx, cur, steps,
                   calls, last, interp, ret, fn_arg, fn_ret, executor, done, other>>

\* IptablesWriter::push
Push(action, rule, recreating_mode) ==
    UnderscorePush(FromAction(action), rule, recreating_mode)

\* FirstPassIsCreation with Recreation starting at the creation pass
FirstPassCreationFirst(w) ==
    CASE w = "Creation"   -> TRUE
      [] w = "Recreation" -> TRUE
      [] w = "Deletion"   -> FALSE

\* execute, lines 595-601: the pass the match on want starts with
FirstPassIsCreation(w) ==
    CASE w = "Creation"   -> TRUE
      [] w = "Recreation" -> FALSE
      [] w = "Deletion"   -> FALSE

\* Execute with the position of the iterator kept from the call before
ExecuteKeepingPosition(w, verbose, ex) ==
    /\ pc = "idle"
    /\ pc' = "run"
    /\ want' = w
    /\ verbose_output' = verbose
    /\ executor' = ex
    /\ creation' = FirstPassIsCreation(w)
    /\ steps' = <<>>
    /\ UNCHANGED <<iptables_cmd, actions, idx, cur, calls, last, interp, ret, fn_arg, fn_ret,
                   done, other>>

\* execute is called
Execute(w, verbose, ex) ==
    /\ pc = "idle"
    /\ pc' = "run"
    /\ want' = w
    /\ verbose_output' = verbose
    /\ executor' = ex
    /\ creation' = FirstPassIsCreation(w)
    /\ idx' = 0
    /\ steps' = <<>>
    /\ UNCHANGED <<iptables_cmd, actions, cur, calls, last, interp, ret, fn_arg, fn_ret, done,
                   other>>

\* IterIndex without the .rev() of the deleting pass
IterIndexForward(creating, k, n) == k

\* run, lines 517-521: the index in self.actions of the k-th item the pass's
\* iterator yields
IterIndex(creating, k, n) == IF creating THEN k ELSE n - k + 1

RECURSIVE MapFromDeletionAction(_)
MapFromDeletionAction(ds) ==
    IF ds = <<>> THEN <<>>
    ELSE <<FromDeletionAction(Head(ds))>> \o MapFromDeletionAction(Tail(ds))

\* ToRun without the deletion sequence: the action as given in either pass
ToRunAsGiven(creating, action, creation_action) == <<action>>

\* run, lines 539-548: the actions to execute for one item
ToRun(creating, action, creation_action) ==
    IF creating THEN <<action>>
    ELSE MapFromDeletionAction(DeletionSequence(creation_action))

\* Skipped with the test of the pass left out: nothing is passed over
SkippedNever(creating, recreating_mode) == FALSE

\* run, lines 524-531: the item is passed over (continue)
Skipped(creating, recreating_mode) ==
    CASE recreating_mode = Owned -> FALSE
      [] recreating_mode = TryCreationNoDeletion -> ~creating

\* run, lines 523-548: the outer loop takes the next item
NextItem ==
    /\ pc = "run"
    /\ steps = <<>>
    /\ idx < Len(actions)
    /\ LET i == IterIndex(creation, idx + 1, Len(actions))
           action == actions[i][1]
           recreating_mode == actions[i][3]
       IN  /\ idx' = idx + 1
           /\ IF Skipped(creation, recreating_mode)
              THEN \* continue
                   UNCHANGED <<pc, cur, steps>>
              ELSE IF action[1] # "Creation"
              THEN \* panic!
                   /\ pc' = "panicked"
                   /\ UNCHANGED <<cur, steps>>
              ELSE /\ steps' = ToRun(creation, action, action[2])
                   /\ cur' = i
                   /\ pc' = pc
    /\ UNCHANGED <<iptables_cmd, actions, want, verbose_output, creation, calls, last, interp,
                   ret, fn_arg, fn_ret, executor, done, other>>

\* ExecutorResult::to_str, the marker of a verbose line
ResultToStr(result) == IF result.status = Success THEN "+" ELSE "E"

\* PolicyOkForDeletions with the error left out: ignored for every action
PolicyOkForDeletionsIgnored(action, result) == <<"Ok">>

\* PolicyOkForDeletions without the is_creation test: an error for every action
PolicyOkForDeletionsAlways(action, result) ==
    to_anyhow(result, Some("for non-deleting action " \o DebugAnyAction(action)))

\* run, lines 559-565: the match arm of OkForDeletions
PolicyOkForDeletions(action, result) ==
    IF IsCreation(action)
    THEN to_anyhow(result, Some("for non-deleting action " \o DebugAnyAction(action)))
    ELSE <<"Ok">>

\* PolicyChainInUse without the is_creation test: in use is an error for every action
PolicyChainInUseAlways(action, result) ==
    to_anyhow(result,
              Some("because chain is in use, for non-deleting action "
                   \o DebugAnyAction(action)))

\* run, lines 566-575: the match arm of ChainInUse
PolicyChainInUse(action, result) ==
    IF IsCreation(action)
    THEN to_anyhow(result,
                   Some("because chain is in use, for non-deleting action "
                        \o DebugAnyAction(action)))
    ELSE <<"Ok">>

\* PolicyChainAlreadyExists without the comparison with NewChain: ignored for every
\* action
PolicyChainAlreadyExistsIgnored(action, result) == <<"Ok">>

\* run, lines 576-587: the match arm of ChainAlreadyExists
PolicyChainAlreadyExists(action, result) ==
    IF action = FromAction(NewChain)
    THEN <<"Ok">>
    ELSE to_anyhow(result,
                   Some("got 'chain already exists' error even though action "
                        \o "is not chain creation, but " \o DebugAnyAction(action)))

\* PolicyErr with the error dropped
PolicyErrDropped(result) == <<"Ok">>

\* run, line 588: the match arm of Err
PolicyErr(result) == to_anyhow(result, None)

\* run, lines 557-589: what the match on the interpretation evaluates to
ApplyPolicy(action, result) ==
    LET i == Interpretation(result)
    IN  CASE i = "Ok" -> <<"Ok">>
          [] i = "OkForDeletions" -> PolicyOkForDeletions(action, result)
          [] i = "ChainInUse" -> PolicyChainInUse(action, result)
          [] i = "ChainAlreadyExists" -> PolicyChainAlreadyExists(action, result)
          [] i = "Err" -> PolicyErr(result)

\* Propagates with the ? left out
PropagatesNever(outcome) == FALSE

\* VerboseLine without the marker
VerboseLineNoMarker(result) == shell_quote_many(result.cmd)

\* run, line 555: the line writeln! writes, without its newline
VerboseLine(result) == ResultToStr(result) \o " " \o shell_quote_many(result.cmd)

\* the ? operator: the Err of an anyhow::Result is returned to the caller
Propagates(outcome) == outcome[1] = "Err"

\* run, lines 549-590: one turn of the inner loop: the command is built, handed to the
\* executor, which answers it, logged, and the result interpreted
RunStep ==
    /\ pc = "run"
    /\ steps # <<>>
    /\ LET action == Head(steps)
           rule == actions[cur][2]
           cmd == iptables_cmd \o CmdArgs(rule, action)
       IN  \E answer \in ExecutorExecute(executor, cmd) :
             LET result == ExecutorResult(cmd, answer[1], answer[2])
                 outcome == ApplyPolicy(action, result)
             IN  /\ executor' = answer[3]
                 /\ calls' = Append(calls, [action |-> action, cmd |-> cmd,
                                            creation |-> creation, op |-> cur,
                                            success |-> (result.status = Success),
                                            before |-> executor])
                 /\ last' = Some(result)
                 /\ IF verbose_output # None /\ verbose_output[2].kind = "failing"
                    THEN \* writeln!(..)? returns the writer's error
                         /\ pc' = "returned"
                         /\ ret' = <<"Err", "io error">>
                         /\ interp' = "none"
                         /\ UNCHANGED <<verbose_output, steps>>
                    ELSE /\ verbose_output' =
                              IF verbose_output = None THEN None
                              ELSE Some([verbose_output[2] EXCEPT
                                             !.lines = Append(@, VerboseLine(result))])
                         /\ interp' = Interpretation(result)
                         /\ IF Propagates(outcome)
                            THEN /\ pc' = "returned"
                                 /\ ret' = outcome
                                 /\ UNCHANGED steps
                            ELSE /\ steps' = Tail(steps)
                                 /\ UNCHANGED <<pc, ret>>
    /\ UNCHANGED <<iptables_cmd, actions, want, creation, idx, cur, fn_arg, fn_ret, done, other>>

\* EndPass with the list taken out of the writer when execute returns
EndPassTakingList ==
    /\ pc = "run"
    /\ steps = <<>>
    /\ idx = Len(actions)
    /\ IF want = "Recreation" /\ ~creation
       THEN /\ creation' = TRUE
            /\ idx' = 0
            /\ UNCHANGED <<pc, ret, actions>>
       ELSE /\ pc' = "returned"
            /\ ret' = <<"Ok">>
            /\ actions' = <<>>
            /\ UNCHANGED <<creation, idx>>
    /\ UNCHANGED <<iptables_cmd, want, verbose_output, cur, steps, calls, last, interp,
                   fn_arg, fn_ret, executor, done, other>>

\* run returns Ok(()) (line 592) and execute goes on (lines 595-603)
EndPass ==
    /\ pc = "run"
    /\ steps = <<>>
    /\ idx = Len(actions)
    /\ IF want = "Recreation" /\ ~creation
       THEN /\ creation' = TRUE
            /\ idx' = 0
            /\ UNCHANGED <<pc, ret>>
       ELSE /\ pc' = "returned"
            /\ ret' = <<"Ok">>
            /\ UNCHANGED <<creation, idx>>
    /\ UNCHANGED <<iptables_cmd, actions, want, verbose_output, cur, steps, calls, last, interp,
                   fn_arg, fn_ret, executor, done, other>>

VerboseOutputs ==
    {None} \cup {Some([kind |-> k, lines |-> <<>>]) : k \in Writers}

Next ==
    \/ \E in \in PushInputs : Len(actions) < MaxOps /\ Push(in[1], in[2], in[3])
    \/ \E in \in UnderscorePushInputs :
          Len(actions) < MaxOps /\ UnderscorePush(in[1], in[2], in[3])
    \/ \E w \in Effects, v \in VerboseOutputs : Execute(w, v, AnyExecutor)
    \/ NextItem
    \/ RunStep
    \/ EndPass

Spec == Init /\ [][Next]_vars

-----------------------------------------------------------------------------
(* A writer that execute is called on more than once (execute takes &self). *)

\* execute has returned to its caller, which keeps what the call did
Finish ==
    /\ pc = "returned"
    /\ Len(done) < MaxRuns
    /\ done' = Append(done, [want |-> want, calls |-> calls, ret |-> ret,
                             executor |-> executor])
    /\ pc' = "idle"
    /\ calls' = <<>>
    /\ last' = None
    /\ interp' = "none"
    /\ ret' = <<>>
    /\ UNCHANGED <<iptables_cmd, actions, want, verbose_output, creation, idx, cur, steps,
                   fn_arg, fn_ret, executor, other>>

NextRepeat ==
    \/ \E in \in PushInputs :
          done = <<>> /\ Len(actions) < MaxOps /\ Push(in[1], in[2], in[3])
    \/ \E w \in Effects : Execute(w, None, DryExecutor)
    \/ NextItem
    \/ RunStep
    \/ EndPass
    \/ Finish

SpecRepeat == Init /\ [][NextRepeat]_vars

-----------------------------------------------------------------------------
(* A writer of one operation, executed with RealExecutor on a table that holds some
   chains and rules already. *)

\* the words of a rule's specification, as its commands state them after the chain
SpecOf(rule) ==
    LET args == CmdArgs(rule, Creation(AppendAction))
    IN  SubSeq(args, 5, Len(args))

\* the sequences of at most n elements of set
RECURSIVE SeqsUpTo(_, _)
SeqsUpTo(set, n) ==
    IF n = 0 THEN {<<>>}
    ELSE LET shorter == SeqsUpTo(set, n - 1)
         IN  shorter \cup {Append(q, x) : q \in shorter, x \in set}

\* the tables execute may find: our-chain absent or with rules, INPUT with jumps to it
Tables ==
    {EmptyTable}
        \cup {[c \in BuiltinChains \cup {"our-chain"} |->
                    CASE c = "our-chain" -> ours
                      [] c = "INPUT" -> input
                      [] OTHER -> <<>>] :
                 ours \in SeqsUpTo({SpecOf(PortRule), SpecOf(RejectRule)}, MaxRules),
                 input \in SeqsUpTo({SpecOf(JumpRule)}, MaxRules)}

\* what push is called with, once
OnePushInputs ==
    {<<NewChain, ChainRule, Owned>>,
     <<AppendAction, PortRule, Owned>>,
     <<AppendAction, JumpRule, Owned>>}
        \cup {<<Insert(n), r, Owned>> : n \in 1..(MaxRules + 1), r \in {PortRule, JumpRule}}

InitReal ==
    /\ iptables_cmd = <<"ip6tables">>
    /\ actions = <<>>
    /\ pc = "idle"
    /\ want = "Creation"
    /\ verbose_output = None
    /\ creation = FALSE
    /\ idx = 0
    /\ cur = 0
    /\ steps = <<>>
    /\ calls = <<>>
    /\ last = None
    /\ interp = "none"
    /\ ret = <<>>
    /\ fn_arg = <<>>
    /\ fn_ret = <<>>
    /\ executor \in {RealExecutor(t) : t \in Tables}
    /\ done = <<>>
    /\ other = NotStarted

NextRoundTrip ==
    \/ \E in \in OnePushInputs : actions = <<>> /\ Push(in[1], in[2], in[3])
    \/ \E w \in {"Creation", "Deletion"} : actions # <<>> /\ Execute(w, None, executor)
    \/ NextItem
    \/ RunStep
    \/ EndPass
    \/ Finish

SpecRoundTrip == InitReal /\ [][NextRoundTrip]_vars

-----------------------------------------------------------------------------
(* A writer of Owned operations, executed again and again with RealExecutor, on a
   table that is empty at first. *)

\* what push is called with: a chain, a jump to it, a rule in it
RefreshPushInputs ==
    {<<NewChain, ChainRule, Owned>>,
     <<Insert(1), JumpRule, Owned>>,
     <<AppendAction, PortRule, Owned>>}

InitRefresh ==
    /\ iptables_cmd = <<"ip6tables">>
    /\ actions = <<>>
    /\ pc = "idle"
    /\ want = "Creation"
    /\ verbose_output = None
    /\ creation = FALSE
    /\ idx = 0
    /\ cur = 0
    /\ steps = <<>>
    /\ calls = <<>>
    /\ last = None
    /\ interp = "none"
    /\ ret = <<>>
    /\ fn_arg = <<>>
    /\ fn_ret = <<>>
    /\ executor = RealExecutor(EmptyTable)
    /\ done = <<>>
    /\ other = NotStarted

NextRefresh ==
    \/ \E in \in RefreshPushInputs :
          done = <<>> /\ Len(actions) < MaxOps /\ Push(in[1], in[2], in[3])
    \/ \E w \in Effects : Execute(w, None, executor)
    \/ NextItem
    \/ RunStep
    \/ EndPass
    \/ Finish

SpecRefresh == InitRefresh /\ [][NextRefresh]_vars

-----------------------------------------------------------------------------
(* Two processes that each call execute(Effect::Recreation, ..) once on the same list
   of Owned operations, with RealExecutor on the one table there is.  execute takes no
   lock: between two commands of one process the other may run its own. *)

\* the process that runs is suspended and the other one runs.  A step of run that
\* issues no command touches nothing the other process sees, so it is enough to
\* suspend a process when its next step issues a command or when it has returned.
Switch ==
    /\ \/ pc = "run" /\ steps # <<>>
       \/ pc = "returned"
    /\ other.pc # "returned"
    /\ other' = [pc |-> pc, want |-> want, verbose_output |-> verbose_output,
                 creation |-> creation, idx |-> idx, cur |-> cur, steps |-> steps,
                 calls |-> calls, last |-> last, interp |-> interp, ret |-> ret]
    /\ pc' = other.pc
    /\ want' = other.want
    /\ verbose_output' = other.verbose_output
    /\ creation' = other.creation
    /\ idx' = other.idx
    /\ cur' = other.cur
    /\ steps' = other.steps
    /\ calls' = other.calls
    /\ last' = other.last
    /\ interp' = other.interp
    /\ ret' = other.ret
    /\ UNCHANGED <<iptables_cmd, actions, fn_arg, fn_ret, executor, done>>

NextRace ==
    \/ \E in \in RefreshPushInputs :
          /\ other.pc = "idle"
          /\ Len(actions) < MaxOps
          /\ Push(in[1], in[2], in[3])
    \/ actions # <<>> /\ Execute("Recreation", None, executor)
    \/ NextItem
    \/ RunStep
    \/ EndPass
    \/ Switch

SpecRace == InitRefresh /\ [][NextRace]_vars

-----------------------------------------------------------------------------
(* Lists of a chain and the rules that jump to it, in both recreating modes. *)

\* what push is called with: a chain, jumps to it, a rule in it
ChainPushInputs ==
    {<<NewChain, ChainRule, Owned>>,
     <<Insert(1), JumpRule, Owned>>,
     <<Insert(1), JumpRule, TryCreationNoDeletion>>,
     <<AppendAction, PortRule, Owned>>}

NextChains ==
    \/ \E in \in ChainPushInputs : Len(actions) < MaxOps /\ Push(in[1], in[2], in[3])
    \/ \E w \in Effects : Execute(w, None, AnyExecutor)
    \/ NextItem
    \/ RunStep
    \/ EndPass

SpecChains == Init /\ [][NextChains]_vars

\* execute is sequential and synchronous: once called, run takes its next step as soon
\* as the executor has answered
SpecChainsFair ==
    SpecChains /\ WF_vars(NextItem) /\ WF_vars(RunStep) /\ WF_vars(EndPass)

-----------------------------------------------------------------------------
(* The writer that example() of src/src/bin/main.rs builds, executed with the mock
   executors of its tests. *)

ForwardJumpRule == Rule(Builtin("Filter", "FORWARD"), <<>>, <<"Jump", our_chain>>)

ExamplePortRule(interface, port) ==
    Rule(our_chain,
         << <<"Interface", Is, interface>>, <<"Protocol", Is, "Tcp">>,
            <<"DestinationPort", Is, port>> >>,
         <<"Return">>)

ExampleRejectRule(interface) ==
    Rule(our_chain, << <<"Interface", Is, interface>> >>, <<"Reject">>)

\* the calls of push that example(vec![interface]) makes, in order
Example(interface) ==
    << <<NewChain, ChainRule, Owned>>,
       <<Insert(1), JumpRule, Owned>>,
       <<Insert(1), ForwardJumpRule, Owned>>,
       <<AppendAction, ExamplePortRule(interface, 22), Owned>>,
       <<AppendAction, ExamplePortRule(interface, 80), Owned>>,
       <<AppendAction, ExamplePortRule(interface, 9080), Owned>>,
       <<AppendAction, ExampleRejectRule(interface), Owned>> >>

ExampleOps == Example("eth42")

\* the texts a mock's entry answers with
BusyText == ".. CHAIN_DEL failed (Device or resource busy) .."
ExistsText == "iptables: Chain already exists."

\* the entries for -X of the mocks: verify_error_mode has the first three
MockEntriesX ==
    {<<"-X", ExitCode(1), "">>,
     <<"-X", ExitCode(4), "">>,
     <<"-X", ExitCode(4), BusyText>>}

\* the entries for -N of the mocks: verify_error_mode has exit code 1 with ExistsText
MockEntriesN ==
    {<<"-N", ExitCode(c), o>> : c \in 1..MaxExitCode, o \in {"", ExistsText, BusyText}}
        \cup {<<"-N", Signal(9), "">>}

\* the executors the example is run with
MockExecutors ==
    {DryExecutor, MockExecutor(<<>>)}
        \cup {MockExecutor(<<x>>) : x \in MockEntriesX}
        \cup {MockExecutor(<<n>>) : n \in MockEntriesN}
        \cup {MockExecutor(<<x, n>>) : x \in MockEntriesX, n \in MockEntriesN}

\* example(): the next push of the example
PushExample ==
    /\ Len(actions) < Len(ExampleOps)
    /\ LET in == ExampleOps[Len(actions) + 1]
       IN  Push(in[1], in[2], in[3])

\* example(..).execute(want, verbose_output, executor)
ExecuteExample(w, verbose, ex) ==
    /\ Len(actions) = Len(ExampleOps)
    /\ Execute(w, verbose, ex)

NextExample ==
    \/ PushExample
    \/ \E w \in Effects, v \in VerboseOutputs, ex \in MockExecutors : ExecuteExample(w, v, ex)
    \/ NextItem
    \/ RunStep
    \/ EndPass

SpecExample == Init /\ [][NextExample]_vars

-----------------------------------------------------------------------------
(* The pure functions, applied to inputs drawn from bounded sets. *)

Actions == {AppendAction, NewChain} \cup {Insert(n) : n \in 0..MaxInsert}

AnyActions ==
    {Check} \cup {Creation(a) : a \in Actions} \cup {Deletion(d) : d \in DeletionActions}

Statuses ==
    {Success} \cup {ExitCode(c) : c \in 0..MaxExitCode} \cup {Signal(9), Signal(15)}
        \cup {ExecFailure("No such file or directory (os error 2)")}

Outputs ==
    {"",
     "CHAIN_DEL failed (Device or resource busy)",
     ".. CHAIN_DEL failed (Device or resource busy) ..",
     "CHAIN_DEL failed",
     "Chain already exists",
     "iptables: Chain already exists.",
     "chain already exists",
     "Chain already exists / CHAIN_DEL failed (Device or resource busy)"}

InitPure ==
    /\ iptables_cmd = <<"ip6tables">>
    /\ actions = <<>>
    /\ pc = "pure"
    /\ want = "Creation"
    /\ verbose_output = None
    /\ creation = FALSE
    /\ idx = 0
    /\ cur = 0
    /\ steps = <<>>
    /\ calls = <<>>
    /\ last = None
    /\ interp = "none"
    /\ ret = <<>>
    /\ fn_arg = <<>>
    /\ fn_ret = <<>>
    /\ executor = AnyExecutor
    /\ done = <<>>
    /\ other = NotStarted

ApplyInterpretation(status, combined_output) ==
    /\ pc = "pure"
    /\ fn_arg' = <<"interpretation", status, combined_output>>
    /\ fn_ret' = Interpretation(ExecutorResult(<<"ip6tables">>, status, combined_output))
    /\ UNCHANGED <<iptables_cmd, actions, pc, want, verbose_output, creation, idx, cur,
                   steps, calls, last, interp, ret, executor, done, other>>

ApplyDeletionSequence(a) ==
    /\ pc = "pure"
    /\ fn_arg' = <<"deletion_sequence", a>>
    /\ fn_ret' = DeletionSequence(a)
    /\ UNCHANGED <<iptables_cmd, actions, pc, want, verbose_output, creation, idx, cur,
                   steps, calls, last, interp, ret, executor, done, other>>

ApplyIsCreation(any) ==
    /\ pc = "pure"
    /\ fn_arg' = <<"is_creation", any>>
    /\ fn_ret' = IsCreation(any)
    /\ UNCHANGED <<iptables_cmd, actions, pc, want, verbose_output, creation, idx, cur,
                   steps, calls, last, interp, ret, executor, done, other>>

NextPure ==
    \/ \E st \in Statuses, o \in Outputs : ApplyInterpretation(st, o)
    \/ \E a \in Actions : ApplyDeletionSequence(a)
    \/ \E any \in AnyActions : ApplyIsCreation(any)

SpecPure == InitPure /\ [][NextPure]_vars

-----------------------------------------------------------------------------
(* Rule::cmd_args and the commands of one item of the list, applied to rules and
   actions drawn from bounded sets. *)

\* the restrictions of the rules: every negatable kind, plain and negated, and a
\* free-form one
RestrictionInputs ==
    UNION {{<<"Interface", neg, "eth42">>,
            <<"Protocol", neg, "Tcp">>,
            <<"SourceAddress", neg, <<10, 0, 0, 0, 8>> >>,
            <<"DestinationAddress", neg, <<192, 168, 1, 0, 24>> >>,
            <<"SourcePort", neg, 1024>>,
            <<"DestinationPort", neg, 22>>} : neg \in {Is, IsNot}}
        \cup {<<"Custom", <<"-m", "conntrack", "--ctstate", "RELATED,ESTABLISHED">> >>}

RuleInputs ==
    {Rule(c, rs, ra) :
        c \in {our_chain, Builtin("Filter", "INPUT")},
        rs \in SeqsUpTo(RestrictionInputs, MaxRestrictions),
        ra \in {<<"None">>, <<"Jump", our_chain>>}}

\* Rule::cmd_args
ApplyCmdArgs(rule, any) ==
    /\ pc = "pure"
    /\ fn_arg = <<>>
    /\ fn_arg' = <<"cmd_args", rule, any>>
    /\ fn_ret' = CmdArgs(rule, any)
    /\ UNCHANGED <<iptables_cmd, actions, pc, want, verbose_output, creation, idx, cur,
                   steps, calls, last, interp, ret, executor, done, other>>

\* run, lines 539-552: the commands of one pass for an item of the list
RECURSIVE CmdsFor(_, _)
CmdsFor(rule, as) ==
    IF as = <<>> THEN <<>>
    ELSE <<iptables_cmd \o CmdArgs(rule, Head(as))>> \o CmdsFor(rule, Tail(as))

ItemCmds(creating, action, rule) == CmdsFor(rule, ToRun(creating, action, action[2]))

\* the commands of the creating and of the deleting pass for push(action, rule, ..)
ApplyItemCmds(action, rule) ==
    /\ pc = "pure"
    /\ fn_arg = <<>>
    /\ fn_arg' = <<"item_cmds", action, rule>>
    /\ fn_ret' = <<ItemCmds(TRUE, FromAction(action), rule),
                   ItemCmds(FALSE, FromAction(action), rule)>>
    /\ UNCHANGED <<iptables_cmd, actions, pc, want, verbose_output, creation, idx, cur,
                   steps, calls, last, interp, ret, executor, done, other>>

NextArgs ==
    /\ fn_arg = <<>>
    /\ \/ \E rule \in RuleInputs, any \in AnyActions : ApplyCmdArgs(rule, any)
       \/ \E rule \in RuleInputs, a \in Actions : ApplyItemCmds(a, rule)

SpecArgs == InitPure /\ [][NextArgs]_vars

-----------------------------------------------------------------------------
(* What the claims are stated with. *)

IsPrefix(p, q) == Len(p) <= Len(q) /\ \A i \in 1..Len(p) : p[i] = q[i]

Last(q) == q[Len(q)]

RECURSIVE MapVisit(_)
MapVisit(cs) ==
    IF cs = <<>> THEN <<>>
    ELSE << <<Head(cs).op, Head(cs).action>> >> \o MapVisit(Tail(cs))

InPass(c, creating) == c.creation = creating

\* the visits of one pass, as <<index of the operation, action executed>>
UndoVisits == MapVisit(SelectSeq(calls, LAMBDA c : InPass(c, FALSE)))
CreationVisits == MapVisit(SelectSeq(calls, LAMBDA c : InPass(c, TRUE)))

ReturnedOk == pc = "returned" /\ ret = <<"Ok">>
ReturnedErr == pc = "returned" /\ ret # <<>> /\ ret[1] = "Err"

\* the undoing steps of a creating action, as the specification states them
StatedUndo(a) ==
    IF a = NewChain THEN <<Deletion(Flush), Deletion(DeleteChain)>>
    ELSE <<Deletion(Delete)>>

RECURSIVE PairWith(_, _)
PairWith(i, as) ==
    IF as = <<>> THEN <<>> ELSE << <<i, Head(as)>> >> \o PairWith(i, Tail(as))

\* the visits a deleting pass makes when no outcome is fatal: the Owned operations
\* from operation i down to the first, each expanded to its undoing steps; the pass
\* stops (internal error) at an Owned operation that is not a creating one
RECURSIVE StatedUndoVisits(_)
StatedUndoVisits(i) ==
    IF i = 0 THEN <<>>
    ELSE IF actions[i][3] = TryCreationNoDeletion THEN StatedUndoVisits(i - 1)
    ELSE IF actions[i][1][1] # "Creation" THEN <<>>
    ELSE PairWith(i, StatedUndo(actions[i][1][2])) \o StatedUndoVisits(i - 1)

\* the visits a creating pass makes when no outcome is fatal: every operation from
\* operation i up to the last, as given; the pass stops (internal error) at an
\* operation that is not a creating one
RECURSIVE StatedCreationVisits(_)
StatedCreationVisits(i) ==
    IF i > Len(actions) THEN <<>>
    ELSE IF actions[i][1][1] # "Creation" THEN <<>>
    ELSE << <<i, actions[i][1]>> >> \o StatedCreationVisits(i + 1)

FullUndo == StatedUndoVisits(Len(actions))
FullCreation == StatedCreationVisits(1)

-----------------------------------------------------------------------------
\* C1: with no fatal outcome, Effect::Creation visits the operations in declaration
\* order and Effect::Deletion visits the Owned operations in the reverse order, the
\* steps of one operation's undo in the order of its deletion sequence (Flush before
\* DeleteChain): what was visited so far is always a prefix of that order, and all of
\* it when execute has returned Ok.
C1_VisitOrder ==
    /\ want = "Creation" =>
          /\ UndoVisits = <<>>
          /\ IsPrefix(CreationVisits, FullCreation)
          /\ ReturnedOk =>
                /\ CreationVisits = FullCreation
                /\ \A i \in 1..Len(actions) : CreationVisits[i][1] = i
    /\ want = "Deletion" =>
          /\ CreationVisits = <<>>
          /\ IsPrefix(UndoVisits, FullUndo)
          /\ ReturnedOk => UndoVisits = FullUndo

\* C1 witness: a Deletion of two Owned operations has returned Ok after visiting the
\* second operation first and then the first one's Flush before its DeleteChain
C1_Witness ==
    /\ ReturnedOk
    /\ want = "Deletion"
    /\ Len(actions) = 2
    /\ UndoVisits = << <<2, Deletion(Delete)>>, <<1, Deletion(Flush)>>,
                       <<1, Deletion(DeleteChain)>> >>

\* the commands of a sequence of visits
RECURSIVE CmdsOf(_)
CmdsOf(vs) ==
    IF vs = <<>> THEN <<>>
    ELSE <<iptables_cmd \o CmdArgs(actions[Head(vs)[1]][2], Head(vs)[2])>>
             \o CmdsOf(Tail(vs))

RECURSIVE MapCmd(_)
MapCmd(cs) == IF cs = <<>> THEN <<>> ELSE <<Head(cs).cmd>> \o MapCmd(Tail(cs))

\* the command trace of the run
Trace == MapCmd(calls)

\* the full trace of a run of effect w in which no outcome is fatal
FullTrace(w) ==
    CASE w = "Creation"   -> CmdsOf(FullCreation)
      [] w = "Deletion"   -> CmdsOf(FullUndo)
      [] w = "Recreation" -> CmdsOf(FullUndo) \o CmdsOf(FullCreation)

\* C2: under Effect::Recreation no undo-pass command follows a creation-pass command,
\* and the trace is the trace of Effect::Deletion followed by the trace of
\* Effect::Creation: Deletion returns Ok with CmdsOf(FullUndo), Creation with
\* CmdsOf(FullCreation), Recreation with the first followed by the second, and a
\* Recreation that has not got through the undo pass has the trace Deletion has there.
C2_RecreationIsDeletionThenCreation ==
    /\ \A j, k \in 1..Len(calls) : (j < k /\ calls[j].creation) => calls[k].creation
    /\ IsPrefix(Trace, FullTrace(want))
    /\ ReturnedOk => Trace = FullTrace(want)
    /\ (want = "Recreation" /\ CreationVisits # <<>>) => UndoVisits = FullUndo
    /\ (want = "Recreation" /\ ReturnedErr /\ ~Last(calls).creation) =>
          /\ CreationVisits = <<>>
          /\ IsPrefix(Trace, FullTrace("Deletion"))

\* C2 witness: a Recreation of two operations has returned Ok with undo-pass and
\* creation-pass commands in its trace
C2_Witness ==
    /\ ReturnedOk
    /\ want = "Recreation"
    /\ Len(actions) = 2
    /\ Len(UndoVisits) >= 2
    /\ Len(CreationVisits) = 2

ModeOf(c) == actions[c.op][3]

\* C3: in the undo pass a result interpreted as OkForDeletions or ChainInUse does not
\* make execute fail, and the creation pass of a Recreation that returned Ok issued
\* the commands of FullCreation, whatever the undo steps were answered with.
C3_UndoTolerates ==
    /\ (calls # <<>> /\ ~Last(calls).creation
            /\ interp \in {"OkForDeletions", "ChainInUse"}) => ~ReturnedErr
    /\ want = "Recreation" =>
          IsPrefix(MapCmd(SelectSeq(calls, LAMBDA c : InPass(c, TRUE))),
                   CmdsOf(FullCreation))
    /\ (want = "Recreation" /\ ReturnedOk) =>
          MapCmd(SelectSeq(calls, LAMBDA c : InPass(c, TRUE))) = CmdsOf(FullCreation)

\* C3 witness: a Recreation has returned Ok although an undo step was not answered
\* with Success, and its creation pass issued the commands of FullCreation
C3_Witness ==
    /\ ReturnedOk
    /\ want = "Recreation"
    /\ \E k \in 1..Len(calls) : ~calls[k].creation /\ ~calls[k].success
    /\ CreationVisits # <<>>
    /\ CreationVisits = FullCreation

\* C4: a result interpreted as ChainAlreadyExists does not make execute fail when the
\* step is NewChain, and makes it fail for every other step.
C4_ChainAlreadyExistsOnlyNewChain ==
    (calls # <<>> /\ interp = "ChainAlreadyExists") =>
        IF Last(calls).action = Creation(NewChain) THEN ~ReturnedErr ELSE ReturnedErr

\* C4 witness: execute has returned Ok after its last step, a NewChain, was answered
\* with "Chain already exists"
C4_Witness ==
    /\ ReturnedOk
    /\ calls # <<>>
    /\ interp = "ChainAlreadyExists"
    /\ Last(calls).action = Creation(NewChain)

\* C5: a result interpreted as Err makes execute return an error, in either pass and
\* for either mode; the error text names the command and, for an exit code, the code;
\* in the undo pass no creation-pass command is issued.
C5_ErrIsFatal ==
    (calls # <<>> /\ interp = "Err") =>
        /\ ReturnedErr
        /\ StrContains(ret[2], shell_quote_many(Last(calls).cmd))
        /\ last[2].status[1] = "ExitCode" =>
              StrContains(ret[2], "exited with code " \o IntToString(last[2].status[2]))
        /\ ~Last(calls).creation => CreationVisits = <<>>
        /\ (Last(calls).action = Deletion(DeleteChain) /\ last[2].status = ExitCode(4)
                /\ last[2].combined_output = "") =>
              ret[2] = "command " \o Backtick \o "ip6tables -t filter -X our-chain"
                           \o Backtick \o " exited with code 4: "

\* C5 witness: the undo pass of a Recreation has failed at -X with exit code 4 and no
\* output
C5_Witness ==
    /\ ReturnedErr
    /\ want = "Recreation"
    /\ interp = "Err"
    /\ Last(calls).action = Deletion(DeleteChain)
    /\ last[2].status = ExitCode(4)
    /\ last[2].combined_output = ""
    /\ Len(actions) = 2

\* C6 (as claimed): in the creation pass a result interpreted as OkForDeletions makes
\* execute fail when the operation is Owned and does not when it is
\* TryCreationNoDeletion.
C6_Claimed ==
    (calls # <<>> /\ Last(calls).creation /\ interp = "OkForDeletions") =>
        IF ModeOf(Last(calls)) = Owned THEN ReturnedErr ELSE ~ReturnedErr

\* the outcomes the policy table calls fatal
StatedFatal(i, c) ==
    \/ i = "Err"
    \/ i = "ChainAlreadyExists" /\ c.action # Creation(NewChain)
    \/ i = "ChainInUse" /\ c.creation
    \/ i = "OkForDeletions" /\ c.creation /\ ModeOf(c) = Owned

\* C7: when the outcome of a command is fatal execute has returned an error; the
\* commands issued are then a prefix of the trace of a run without fatal outcome, the
\* last of them the failing command, and nothing has run after the return.
C7_FailFast ==
    /\ (calls # <<>> /\ StatedFatal(interp, Last(calls))) => ReturnedErr
    /\ ReturnedErr =>
          /\ calls # <<>>
          /\ IsPrefix(Trace, FullTrace(want))
          /\ last[2].cmd = Last(calls).cmd
    /\ ret # <<>> => pc = "returned"

\* C7 witness: a Recreation has failed in its undo pass after a first command, with
\* commands of both passes left
C7_Witness ==
    /\ ReturnedErr
    /\ want = "Recreation"
    /\ StatedFatal(interp, Last(calls))
    /\ Len(calls) = 2
    /\ Len(FullTrace(want)) > 3

\* C9: no undo-pass command belongs to a TryCreationNoDeletion operation, and a
\* creation pass that got through issued exactly one command for each of them.
C9_TryCreationNoDeletion ==
    /\ \A k \in 1..Len(calls) : ~calls[k].creation => ModeOf(calls[k]) # TryCreationNoDeletion
    /\ \A i \in 1..Len(actions) :
          actions[i][3] = TryCreationNoDeletion =>
              LET n == Cardinality({k \in 1..Len(calls) :
                                        calls[k].creation /\ calls[k].op = i})
              IN  /\ n <= 1
                  /\ (ReturnedOk /\ want \in {"Creation", "Recreation"}) => n = 1

\* C9 witness: a Recreation of an Owned and a TryCreationNoDeletion operation has
\* returned Ok, with undo-pass commands for the Owned one only
C9_Witness ==
    /\ ReturnedOk
    /\ want = "Recreation"
    /\ Len(actions) = 2
    /\ actions[1][3] = TryCreationNoDeletion
    /\ actions[2][3] = Owned
    /\ UndoVisits # <<>>
    /\ Len(CreationVisits) = 2

Applied(f) == fn_arg # <<>> /\ fn_arg[1] = f

\* C8: the interpretation of (status, output) is Ok for success; ChainInUse for exit
\* code 4 with the busy text; ChainAlreadyExists for exit code 1 with "Chain already
\* exists"; OkForDeletions for any other exit code 1 or 2; Err for every other exit
\* code, a signal and a failure to start.
C8_Interpretation ==
    Applied("interpretation") =>
        LET status == fn_arg[2]
            code == IF status[1] = "ExitCode" THEN status[2] ELSE -1
            busy == StrContains(fn_arg[3], "CHAIN_DEL failed (Device or resource busy)")
            exists == StrContains(fn_arg[3], "Chain already exists")
        IN  /\ fn_ret \in {"Ok", "OkForDeletions", "ChainInUse", "ChainAlreadyExists",
                           "Err"}
            /\ (fn_ret = "Ok") = (status = Success)
            /\ (fn_ret = "ChainInUse") = (code = 4 /\ busy)
            /\ (fn_ret = "ChainAlreadyExists") = (code = 1 /\ exists)
            /\ (fn_ret = "OkForDeletions") = (code = 2 \/ (code = 1 /\ ~exists))
            /\ (fn_ret = "Err") =
                  \/ status[1] \in {"Signal", "ExecFailure"}
                  \/ status[1] = "ExitCode" /\ code \notin {1, 2} /\ ~(code = 4 /\ busy)

\* C8 witness: exit code 1 with an output holding both texts is interpreted as
\* ChainAlreadyExists
C8_Witness ==
    /\ Applied("interpretation")
    /\ fn_arg[2] = ExitCode(1)
    /\ fn_arg[3] = "Chain already exists / CHAIN_DEL failed (Device or resource busy)"
    /\ fn_ret = "ChainAlreadyExists"

\* C10: the deletion sequence of a creating action is [Delete] for Append and for every
\* Insert(n) and [Flush, DeleteChain] for NewChain: non-empty and made of actions that
\* are not creating; is_creation holds exactly of the actions that have one.
C10_DeletionSequence ==
    /\ Applied("deletion_sequence") =>
          /\ fn_ret # <<>>
          /\ \A k \in 1..Len(fn_ret) :
                /\ fn_ret[k] \in DeletionActions
                /\ ~IsCreation(FromDeletionAction(fn_ret[k]))
          /\ fn_arg[2] = AppendAction => fn_ret = <<Delete>>
          /\ fn_arg[2][1] = "Insert" => fn_ret = <<Delete>>
          /\ fn_arg[2] = NewChain => fn_ret = <<Flush, DeleteChain>>
    /\ Applied("is_creation") =>
          /\ fn_ret = (\E a \in Actions : fn_arg[2] = FromAction(a))
          /\ fn_arg[2] \in {Check, Deletion(Delete), Deletion(DeleteChain),
                            Deletion(Flush)} => fn_ret = FALSE

\* C10 witness: the deletion sequence of NewChain was looked up
C10_Witness ==
    /\ Applied("deletion_sequence")
    /\ fn_arg[2] = NewChain
    /\ fn_ret = <<Flush, DeleteChain>>

-----------------------------------------------------------------------------
\* the operations of the list that create chain c
NewChainOps(c) ==
    {i \in 1..Len(actions) : actions[i][1] = Creation(NewChain) /\ actions[i][2].chain = c}

\* the operations of the list whose rule jumps or goes to chain c
Refs(c) ==
    {j \in 1..Len(actions) :
        /\ actions[j][2].rule_action[1] \in {"Jump", "Goto"}
        /\ actions[j][2].rule_action[2] = c}

CreatedChains == {actions[i][2].chain : i \in 1..Len(actions)}

\* every rule that refers to a chain is declared after the operations creating it
DeclaredAfter ==
    \A c \in CreatedChains : \A i \in NewChainOps(c), j \in Refs(c) : i < j

\* before call k, the deleting pass has issued the last undoing step of operation j
UndoneBefore(j, k) ==
    /\ actions[j][1][1] = "Creation"
    /\ \E m \in 1..(k - 1) :
          /\ ~calls[m].creation
          /\ calls[m].op = j
          /\ calls[m].action = Last(StatedUndo(actions[j][1][2]))

\* before call k, the creating pass has issued NewChain for operation i
CreatedBefore(i, k) ==
    \E m \in 1..(k - 1) :
        calls[m].creation /\ calls[m].op = i /\ calls[m].action = Creation(NewChain)

\* in the creating pass NewChain for a chain comes before every command of a rule
\* referring to the chain
NewChainFirst ==
    \A k \in 1..Len(calls) :
        calls[k].creation =>
            \A c \in CreatedChains :
                calls[k].op \in Refs(c) => \A i \in NewChainOps(c) : CreatedBefore(i, k)

\* in the deleting pass DeleteChain for a chain comes after the undoing of every rule
\* with a mode in modes that refers to the chain
DeleteChainLast(modes) ==
    \A k \in 1..Len(calls) :
        (~calls[k].creation /\ calls[k].action = Deletion(DeleteChain)) =>
            \A j \in Refs(actions[calls[k].op][2].chain) :
                actions[j][3] \in modes => UndoneBefore(j, k)

\* C12 (as claimed): when every referring rule is declared after the NewChain of its
\* chain, the deleting pass issues DeleteChain only after every referring rule has been
\* undone, and the creating pass issues NewChain before any command of a referring rule.
C12_Claimed ==
    DeclaredAfter => (DeleteChainLast({Owned, TryCreationNoDeletion}) /\ NewChainFirst)

\* C12 (amended): as claimed, for the referring rules whose mode is Owned; a referring
\* rule whose mode is TryCreationNoDeletion is not undone at all.
C12_DependencySafety ==
    DeclaredAfter => (DeleteChainLast({Owned}) /\ NewChainFirst)

\* C12 witness: a Recreation of a chain and an Owned jump to it has returned Ok, the
\* jump deleted before the chain was, the chain created before the jump was inserted
C12_Witness ==
    /\ ReturnedOk
    /\ want = "Recreation"
    /\ actions = << <<Creation(NewChain), ChainRule, Owned>>,
                    <<Creation(Insert(1)), JumpRule, Owned>> >>
    /\ Len(calls) = 5
    /\ calls[1].action = Deletion(Delete)
    /\ calls[3].action = Deletion(DeleteChain)
    /\ calls[4].action = Creation(NewChain)

-----------------------------------------------------------------------------
\* the commands of a sequence of calls
RECURSIVE CmdsOfCalls(_)
CmdsOfCalls(cs) ==
    IF cs = <<>> THEN <<>> ELSE <<Head(cs).cmd>> \o CmdsOfCalls(Tail(cs))

\* C13: two calls of execute(Effect::Recreation) on the same writer, with an executor
\* that reports success for every command, issue the same commands in the same order
\* and return the same.
C13_TraceIdempotence ==
    \A i, j \in 1..Len(done) :
        (done[i].want = "Recreation" /\ done[j].want = "Recreation") =>
            /\ CmdsOfCalls(done[i].calls) = CmdsOfCalls(done[j].calls)
            /\ done[i].ret = done[j].ret

\* C13 witness: two Recreations of a list of two operations have returned, each after
\* commands of both passes
C13_Witness ==
    /\ Len(done) = 2
    /\ Len(actions) = 2
    /\ done[1].want = "Recreation"
    /\ done[2].want = "Recreation"
    /\ Len(done[1].calls) = 5
    /\ done[2].ret = <<"Ok">>

-----------------------------------------------------------------------------
\* the 15 commands of the scenario, as the test verify_error_mode expects them
ScenarioCmds ==
    << <<"ip6tables", "-t", "filter", "-D", "our-chain", "-i", "eth42", "-j", "REJECT">>,
       <<"ip6tables", "-t", "filter", "-D", "our-chain", "-i", "eth42", "-p", "tcp",
         "--dport", "9080", "-j", "RETURN">>,
       <<"ip6tables", "-t", "filter", "-D", "our-chain", "-i", "eth42", "-p", "tcp",
         "--dport", "80", "-j", "RETURN">>,
       <<"ip6tables", "-t", "filter", "-D", "our-chain", "-i", "eth42", "-p", "tcp",
         "--dport", "22", "-j", "RETURN">>,
       <<"ip6tables", "-t", "filter", "-D", "FORWARD", "-j", "our-chain">>,
       <<"ip6tables", "-t", "filter", "-D", "INPUT", "-j", "our-chain">>,
       <<"ip6tables", "-t", "filter", "-F", "our-chain">>,
       <<"ip6tables", "-t", "filter", "-X", "our-chain">>,
       <<"ip6tables", "-t", "filter", "-N", "our-chain">>,
       <<"ip6tables", "-t", "filter", "-I", "INPUT", "1", "-j", "our-chain">>,
       <<"ip6tables", "-t", "filter", "-I", "FORWARD", "1", "-j", "our-chain">>,
       <<"ip6tables", "-t", "filter", "-A", "our-chain", "-i", "eth42", "-p", "tcp",
         "--dport", "22", "-j", "RETURN">>,
       <<"ip6tables", "-t", "filter", "-A", "our-chain", "-i", "eth42", "-p", "tcp",
         "--dport", "80", "-j", "RETURN">>,
       <<"ip6tables", "-t", "filter", "-A", "our-chain", "-i", "eth42", "-p", "tcp",
         "--dport", "9080", "-j", "RETURN">>,
       <<"ip6tables", "-t", "filter", "-A", "our-chain", "-i", "eth42", "-j", "REJECT">> >>

\* the scenario: the example under Recreation, the executor failing only -X, with exit
\* code 1, the verbose output absent or writable as in the test
InScenario ==
    /\ pc \in {"run", "returned"}
    /\ want = "Recreation"
    /\ executor = MockExecutor(<< <<"-X", ExitCode(1), "">> >>)
    /\ (verbose_output = None \/ verbose_output[2].kind = "writable")

\* C15: in the scenario execute succeeds and issues exactly the 15 commands, in order:
\* the commands issued so far are always a prefix of them, -X is the only one to fail,
\* and when execute has returned it has returned Ok after all 15.
C15_Scenario ==
    InScenario =>
        /\ IsPrefix(CmdsOfCalls(calls), ScenarioCmds)
        /\ \A k \in 1..Len(calls) : calls[k].success = (k # 8)
        /\ pc = "returned" => (ret = <<"Ok">> /\ Len(calls) = 15)

\* C15 witness: the scenario has returned Ok after its 15 commands
C15_Witness ==
    /\ InScenario
    /\ ReturnedOk
    /\ CmdsOfCalls(calls) = ScenarioCmds
    /\ ~calls[8].success

-----------------------------------------------------------------------------
\* a Recreation of the example whose -X is answered with exit code 4 and the busy text,
\* which is interpreted as ChainInUse; the verbose output absent or writable
ChainInUseRun ==
    /\ pc \in {"run", "returned"}
    /\ want = "Recreation"
    /\ executor[1] = "Mock"
    /\ executor[2] # <<>>
    /\ executor[2][1] = <<"-X", ExitCode(4), BusyText>>
    /\ (verbose_output = None \/ verbose_output[2].kind = "writable")

\* what the executor of such a run answers -N with: success when it has no entry for
\* -N, or else the entry's status and output
AnswerToNewChain ==
    IF Len(executor[2]) = 1 THEN <<Success, "">>
    ELSE <<executor[2][2][2], executor[2][2][3]>>

\* the cases in which the claim has -N tolerated
NewChainTolerated ==
    \/ AnswerToNewChain[1] = Success
    \/ /\ AnswerToNewChain[1] = ExitCode(1)
       /\ StrContains(AnswerToNewChain[2], "Chain already exists")

\* C16: in a Recreation where -X was interpreted as ChainInUse, execute returns Ok when
\* -N succeeds or fails with exit code 1 and "Chain already exists" in its output, and
\* returns the error of -N, issuing nothing after it, for any other failure of -N.
C16_ChainInUseThenNewChain ==
    (ChainInUseRun /\ pc = "returned") =>
        IF NewChainTolerated
        THEN ret = <<"Ok">> /\ Len(calls) = 15
        ELSE /\ ret[1] = "Err"
             /\ Len(calls) = 9
             /\ Last(calls).action = Creation(NewChain)
             /\ calls[8].action = Deletion(DeleteChain)

\* C16 witness: such a run has returned Ok although -X and then -N failed, -N with
\* exit code 1 and "Chain already exists"
C16_Witness ==
    /\ ChainInUseRun
    /\ ReturnedOk
    /\ AnswerToNewChain = <<ExitCode(1), ExistsText>>
    /\ ~calls[8].success
    /\ ~calls[9].success
    /\ Len(calls) = 15

\* C16 second witness: such a run has returned the error of a -N that failed with exit
\* code 1 and no text
C16_WitnessFails ==
    /\ ChainInUseRun
    /\ ReturnedErr
    /\ AnswerToNewChain = <<ExitCode(1), "">>

-----------------------------------------------------------------------------
\* the last call was a creating action of an Owned operation in the creating pass, it
\* was answered with exit code 1 or 2, and the answer was interpreted
OwnedCreationFailed ==
    /\ calls # <<>>
    /\ Last(calls).creation
    /\ IsCreation(Last(calls).action)
    /\ ModeOf(Last(calls)) = Owned
    /\ last[2].status \in {ExitCode(1), ExitCode(2)}
    /\ interp # "none"

\* execute has returned an error whose text names the action of the last call
FailedNamingAction ==
    /\ ReturnedErr
    /\ StrContains(ret[2], DebugAnyAction(Last(calls).action))

\* C17 (as claimed): exit code 1 or 2 of a creating action of an Owned operation in the
\* creating pass, whatever the output, makes execute fail with an error naming the action.
C17_Claimed == OwnedCreationFailed => FailedNamingAction

\* C17 (amended): as claimed, except for NewChain answered with exit code 1 and output
\* containing "Chain already exists", which does not make execute fail.
C17_OwnedCreationFailureIsFatal ==
    OwnedCreationFailed =>
        IF /\ Last(calls).action = Creation(NewChain)
           /\ last[2].status = ExitCode(1)
           /\ StrContains(last[2].combined_output, "Chain already exists")
        THEN ~ReturnedErr
        ELSE FailedNamingAction

\* C17 witness: the creating pass has failed at the Append of an Owned operation that
\* was answered with exit code 2, and the error names Creation(Append)
C17_Witness ==
    /\ OwnedCreationFailed
    /\ ReturnedErr
    /\ Last(calls).action = Creation(AppendAction)
    /\ last[2].status = ExitCode(2)
    /\ StrContains(ret[2], "for non-deleting action Creation(Append)")

-----------------------------------------------------------------------------
\* C18 (as claimed): the verbose output does not affect what execute does: whatever
\* verbose_output is, execute returns an error only when the outcome of its last command
\* is an error, and returns that error, as it does when verbose_output is None.
C18_Claimed ==
    ReturnedErr =>
        /\ calls # <<>>
        /\ ret = ApplyPolicy(Last(calls).action, last[2])

-----------------------------------------------------------------------------
\* the line the claim has written for a call: + for a command reported successful, E
\* for one that failed, a space, the quoted command
StatedLine(c) == (IF c.success THEN "+" ELSE "E") \o " " \o shell_quote_many(c.cmd)

\* C19: with a verbose output the lines written are, in order, one line per command
\* handed to the executor, the marker + or E, a space and the quoted command, and
\* nothing else; a writer whose write fails holds no line and stops execute at its
\* first command.
C19_VerboseLines ==
    verbose_output # None =>
        IF verbose_output[2].kind = "writable"
        THEN /\ Len(verbose_output[2].lines) = Len(calls)
             /\ \A k \in 1..Len(calls) : verbose_output[2].lines[k] = StatedLine(calls[k])
        ELSE /\ verbose_output[2].lines = <<>>
             /\ Len(calls) <= 1

\* C19 witness: the Recreation of the example whose -X and -N both fail and are
\* tolerated has returned Ok with the 15 lines of the test verify_error_mode
C19_Witness ==
    /\ ReturnedOk
    /\ verbose_output # None
    /\ Len(verbose_output[2].lines) = 15
    /\ verbose_output[2].lines[1] = "+ ip6tables -t filter -D our-chain -i eth42 -j REJECT"
    /\ verbose_output[2].lines[8] = "E ip6tables -t filter -X our-chain"
    /\ verbose_output[2].lines[9] = "E ip6tables -t filter -N our-chain"
    /\ verbose_output[2].lines[15] = "+ ip6tables -t filter -A our-chain -i eth42 -j REJECT"

-----------------------------------------------------------------------------
\* C20 (as claimed): a creating pass executes every action as given, a non-creating one
\* put in with _push too; the internal error (panic) for a non-creating action happens
\* only in a deleting pass.
C20_Claimed == pc = "panicked" => ~creation

-----------------------------------------------------------------------------
\* the calls of execute that have returned, the current one last
RunsSoFar ==
    done \o (IF pc = "returned"
             THEN <<[want |-> want, calls |-> calls, ret |-> ret, executor |-> executor]>>
             ELSE <<>>)

\* run i was a Creation of the one operation whose creating action succeeded, and the
\* run after it a Deletion
CreatedThenUndone(i) ==
    /\ i + 1 <= Len(RunsSoFar)
    /\ RunsSoFar[i].want = "Creation"
    /\ RunsSoFar[i].ret = <<"Ok">>
    /\ Len(RunsSoFar[i].calls) = 1
    /\ RunsSoFar[i].calls[1].success
    /\ RunsSoFar[i + 1].want = "Deletion"

\* the table before run i and the table run i left
TableBefore(i) == RunsSoFar[i].calls[1].before[2]
TableAfter(i) == RunsSoFar[i].executor[2]

\* in the table before run i no rule equal to the operation's rule stands before the
\* place where its creating action puts the rule
NoEqualRuleAhead(i) ==
    LET a == actions[1][1][2]
        c == ChainName(actions[1][2].chain)
        rules == TableBefore(i)[c]
        place == IF a = AppendAction THEN Len(rules) + 1 ELSE a[2]
    IN  a # NewChain => \A m \in 1..(place - 1) : rules[m] # SpecOf(actions[1][2])

\* C11 (as claimed): on any table, a creating action that succeeded followed by its
\* deletion sequence with the same rule leaves the table as it was before.
C11_Claimed ==
    \A i \in 1..Len(RunsSoFar) : CreatedThenUndone(i) => TableAfter(i + 1) = TableBefore(i)

\* C11 (amended): as claimed, on the tables in which no rule equal to the new one
\* stands ahead of the place where it is put (Delete removes the first equal rule).
C11_RoundTrip ==
    \A i \in 1..Len(RunsSoFar) :
        (CreatedThenUndone(i) /\ NoEqualRuleAhead(i)) =>
            /\ TableAfter(i + 1) = TableBefore(i)
            /\ RunsSoFar[i + 1].ret = <<"Ok">>

\* C11 witness: Insert(2) of a rule into a chain of two other rules and then its Delete
\* have left the chain as it was
C11_Witness ==
    /\ Len(RunsSoFar) = 2
    /\ CreatedThenUndone(1)
    /\ actions[1][1] = Creation(Insert(2))
    /\ TableBefore(1)["our-chain"] = <<SpecOf(RejectRule), SpecOf(RejectRule)>>
    /\ TableAfter(1)["our-chain"] =
           <<SpecOf(RejectRule), SpecOf(PortRule), SpecOf(RejectRule)>>
    /\ TableAfter(2) = TableBefore(1)

\* C11 second witness: NewChain and then Flush and DeleteChain have left a table
\* without the chain
C11_WitnessNewChain ==
    /\ Len(RunsSoFar) = 2
    /\ CreatedThenUndone(1)
    /\ actions[1][1] = Creation(NewChain)
    /\ "our-chain" \in DOMAIN TableAfter(1)
    /\ TableAfter(2) = EmptyTable

-----------------------------------------------------------------------------
\* the table that run i left, the table before the first run being the empty one
TableLeftBy(i) == IF i = 0 THEN EmptyTable ELSE RunsSoFar[i].executor[2]

\* the operations of the list that declare a rule, and those that declare a chain
RuleOps == {k \in 1..Len(actions) : actions[k][1] \in {Creation(AppendAction)}
                                        \cup {Creation(Insert(n)) : n \in 0..MaxInsert}}
ChainOps == {k \in 1..Len(actions) : actions[k][1] = Creation(NewChain)}

\* how often the chain c of table t holds the rule specification s, and how often the
\* list declares s in c
Held(t, c, s) ==
    IF c \in DOMAIN t THEN Cardinality({m \in 1..Len(t[c]) : t[c][m] = s}) ELSE 0
Declared(c, s) ==
    Cardinality({k \in RuleOps : ChainName(actions[k][2].chain) = c
                                     /\ SpecOf(actions[k][2]) = s})

\* table t holds each declared rule exactly once
HoldsEachOnce(t) ==
    \A k \in RuleOps : Held(t, ChainName(actions[k][2].chain), SpecOf(actions[k][2])) = 1

\* table t holds the declared chains and each declared rule as often as the list
\* declares it, and nothing else
HoldsDeclared(t) ==
    /\ DOMAIN t = BuiltinChains \cup {ChainName(actions[k][2].chain) : k \in ChainOps}
    /\ \A c \in DOMAIN t :
           \A s \in Range(t[c]) \cup {SpecOf(actions[k][2]) : k \in RuleOps} :
               Held(t, c, s) = Declared(c, s)

\* table t holds no rule more often than the list declares it
NoSurplus(t) ==
    \A c \in DOMAIN t : \A s \in Range(t[c]) : Held(t, c, s) <= Declared(c, s)

\* run i was a successful Recreation, and so was every run before it successful
RefreshedAt(i) ==
    /\ RunsSoFar[i].want = "Recreation"
    /\ \A j \in 1..i : RunsSoFar[j].ret = <<"Ok">>

\* run i + 1 was a Recreation too
RefreshedAgainAfter(i) ==
    /\ i + 1 <= Len(RunsSoFar)
    /\ RunsSoFar[i + 1].want = "Recreation"

\* C14 (as claimed): from the empty table or a table left by earlier successful runs
\* (Creation, Deletion or Recreation) of the same all-Owned list, a successful
\* Recreation leaves each declared rule in the table exactly once, and a second
\* Recreation leaves that same table.
C14_Claimed ==
    \A i \in 1..Len(RunsSoFar) :
        RefreshedAt(i) =>
            /\ HoldsEachOnce(TableLeftBy(i))
            /\ RefreshedAgainAfter(i) => TableLeftBy(i + 1) = TableLeftBy(i)

\* C14 (amended): as claimed, when the table the Recreation starts from holds no rule
\* more often than the list declares it (the empty table, and what Deletion and
\* Recreation runs leave; not what a Creation leaves on a table that held the rules
\* already): the table then holds the declared chains and each declared rule as often
\* as it is declared, and a second Recreation succeeds and leaves that same table.
C14_IdempotentRefresh ==
    \A i \in 1..Len(RunsSoFar) :
        (RefreshedAt(i) /\ NoSurplus(TableLeftBy(i - 1))) =>
            /\ HoldsDeclared(TableLeftBy(i))
            /\ RefreshedAgainAfter(i) =>
                   /\ RunsSoFar[i + 1].ret = <<"Ok">>
                   /\ TableLeftBy(i + 1) = TableLeftBy(i)

\* C14 witness: a Creation on the empty table and two Recreations of a chain and a jump
\* to it, the second Recreation leaving the table of the first: the chain, and the jump
\* once
C14_Witness ==
    /\ Len(RunsSoFar) = 3
    /\ RunsSoFar[1].want = "Creation"
    /\ RefreshedAt(2)
    /\ RefreshedAgainAfter(2)
    /\ Len(actions) = 2
    /\ actions[2][1] = Creation(Insert(1))
    /\ TableLeftBy(2)["INPUT"] = <<SpecOf(JumpRule)>>
    /\ "our-chain" \in DOMAIN TableLeftBy(2)
    /\ TableLeftBy(3) = TableLeftBy(2)

-----------------------------------------------------------------------------
\* the interpretation of the answer the executor gave to call k of the run: some
\* answer the executor as it was before the call gives to the call's command
Classified(k, i) ==
    \E a \in ExecutorExecute(calls[k].before, calls[k].cmd) :
        Interpretation(ExecutorResult(calls[k].cmd, a[1], a[2])) = i

\* before call k, the run attempted the DeleteChain of the same operation and the
\* answer was interpreted as ChainInUse
PairedChainInUse(k) ==
    \E j \in 1..(k - 1) :
        /\ calls[j].action = Deletion(DeleteChain)
        /\ calls[j].op = calls[k].op
        /\ Classified(j, "ChainInUse")

\* C21 (as claimed): a NewChain step answered with "Chain already exists" is tolerated
\* only when the same run attempted the DeleteChain of that chain before and the answer
\* was interpreted as ChainInUse; without that it makes execute fail.
C21_Claimed ==
    (/\ calls # <<>>
     /\ interp = "ChainAlreadyExists"
     /\ Last(calls).action = Creation(NewChain)
     /\ ~ReturnedErr)
        => PairedChainInUse(Len(calls))

-----------------------------------------------------------------------------
\* the flag the claim and the spec name for a kind of restriction
StatedFlag(kind) ==
    CASE kind = "Interface" -> "-i"
      [] kind = "Protocol" -> "-p"
      [] kind = "SourceAddress" -> "-s"
      [] kind = "DestinationAddress" -> "-d"
      [] kind = "SourcePort" -> "--sport"
      [] kind = "DestinationPort" -> "--dport"

\* the words the claim has for one restriction: `!` if negated, the flag, the value
StatedRestriction(r) ==
    IF r[1] = "Custom" THEN r[2]
    ELSE (IF r[2] = IsNot THEN <<"!">> ELSE <<>>)
             \o <<StatedFlag(r[1]), Last(RestrictionPushArgs(r, <<>>))>>

RECURSIVE StatedRestrictions(_)
StatedRestrictions(rs) ==
    IF rs = <<>> THEN <<>>
    ELSE StatedRestriction(Head(rs)) \o StatedRestrictions(Tail(rs))

OpFlags == {"-A", "-I", "-N", "-D", "-X", "-F", "-C"}

\* C23 (as claimed): the argument vector is -t <table> <op-flag> <chain> [<position>],
\* then the restrictions in their declared order, a negated one with `!` immediately
\* before its flag, then the target flags.
C23_Claimed ==
    Applied("cmd_args") =>
        LET rule == fn_arg[2]
            any == fn_arg[3]
            head == ChainPushArgs(rule.chain, any, <<>>)
        IN  /\ head[1] = "-t"
            /\ head[2] = "filter"
            /\ head[3] \in OpFlags
            /\ head[4] = ChainName(rule.chain)
            /\ Len(head) = IF any[1] = "Creation" /\ any[2][1] = "Insert" THEN 5 ELSE 4
            /\ fn_ret = head \o StatedRestrictions(rule.restrictions)
                             \o RuleActionPushArgs(rule.rule_action, <<>>)

-----------------------------------------------------------------------------
\* a Recreation of the example is running or has returned
ExampleRecreation ==
    /\ pc \in {"run", "returned"}
    /\ want = "Recreation"
    /\ Len(actions) = Len(ExampleOps)

\* of the commands issued so far, the first undo are deletion-sequence steps of the
\* undo pass and the ones after them steps of the creation pass, of which there are no
\* more than create; a run that returned Ok issued undo + create commands
SplitsInto(undo, create) ==
    /\ \A k \in 1..Len(calls) :
           /\ calls[k].creation = (k > undo)
           /\ calls[k].action[1] = IF k > undo THEN "Creation" ELSE "Deletion"
    /\ Len(calls) <= undo + create
    /\ ReturnedOk => Len(calls) = undo + create

\* C24 (as claimed): the 15 commands of a Recreation of the 7-operation example are 6
\* deletion-sequence steps in the undo pass followed by 9 creation steps.
C24_Claimed == ExampleRecreation => SplitsInto(6, 9)

\* C24 (amended): they are 8 deletion-sequence steps in the undo pass (6 Deletes,
\* Flush, DeleteChain) followed by 7 creation steps.
C24_Split == ExampleRecreation => SplitsInto(8, 7)

\* C24 witness: a Recreation of the example has returned Ok after 15 commands, the 8th
\* the DeleteChain and the 9th the NewChain
C24_Witness ==
    /\ ExampleRecreation
    /\ ReturnedOk
    /\ Len(calls) = 15
    /\ calls[8].action = Deletion(DeleteChain)
    /\ ~calls[8].creation
    /\ calls[9].action = Creation(NewChain)
    /\ calls[9].creation

-----------------------------------------------------------------------------
\* C25: execute never modifies the list of pending operations: no step of a call of
\* execute, from the call to its return and to the next call, under any Effect and
\* whether it succeeds or fails, changes self.actions; only push, between calls, does.
C25_ListUnchanged == [][(pc # "idle" \/ pc' # "idle") => actions' = actions]_vars

\* C25 witness: after a call of execute that failed, a second call has issued commands
\* for the second operation of the same list of two
C25_Witness ==
    /\ Len(RunsSoFar) = 2
    /\ RunsSoFar[1].ret # <<"Ok">>
    /\ RunsSoFar[1].calls # <<>>
    /\ Len(actions) = 2
    /\ \E k \in 1..Len(RunsSoFar[2].calls) : RunsSoFar[2].calls[k].op = 2

-----------------------------------------------------------------------------
\* a creation command with its op-flag replaced by -D and its position, if it has one,
\* removed: the words are <tool> -t <table> <op-flag> <chain> [<position>] ...
AsDelete(cmd, has_position) ==
    SubSeq(cmd, 1, 3) \o <<"-D", cmd[5]>>
        \o SubSeq(cmd, IF has_position THEN 7 ELSE 6, Len(cmd))

\* C26: for an Append or Insert(n) operation the undo is one command, the Delete, and
\* it equals the operation's creation command with the op-flag replaced by -D and the
\* position removed: the same tool, table, chain, restrictions and target.
C26_UndoFromSameRule ==
    (Applied("item_cmds") /\ fn_arg[2] # NewChain) =>
        /\ Len(fn_ret[1]) = 1
        /\ fn_ret[1][1][4] = IF fn_arg[2] = AppendAction THEN "-A" ELSE "-I"
        /\ fn_ret[2] = <<AsDelete(fn_ret[1][1], fn_arg[2] # AppendAction)>>

\* C26 witness: -I INPUT 1 -j our-chain and its undo, -D INPUT -j our-chain
C26_Witness ==
    /\ Applied("item_cmds")
    /\ fn_arg[2] = Insert(1)
    /\ fn_ret[1] = << <<"ip6tables", "-t", "filter", "-I", "INPUT", "1", "-j", "our-chain">> >>
    /\ fn_ret[2] = << <<"ip6tables", "-t", "filter", "-D", "INPUT", "-j", "our-chain">> >>

-----------------------------------------------------------------------------
\* the last command issued was a deletion-sequence step (Delete, Flush, DeleteChain)
\* and its result has been interpreted
DeletionStepAnswered ==
    /\ pc \in {"run", "returned"}
    /\ calls # <<>>
    /\ Last(calls).action[1] = "Deletion"
    /\ last # None
    /\ interp # "none"

\* the result says exit code 1 and "Chain already exists"
SaysChainAlreadyExists(result) ==
    /\ result.status = ExitCode(1)
    /\ StrContains(result.combined_output, "Chain already exists")

\* C27 (as claimed): no deletion-sequence step is ever classified ChainAlreadyExists,
\* whatever result the executor returns for it.
C27_Claimed == DeletionStepAnswered => interp # "ChainAlreadyExists"

\* C27 (amended): a deletion-sequence step is classified ChainAlreadyExists exactly
\* when the executor returns exit code 1 with "Chain already exists" in the output for
\* it (the classification looks at the result only), and such a step is never
\* tolerated: execute fails at it.
C27_DeletionStepNeverTolerated ==
    DeletionStepAnswered =>
        /\ (interp = "ChainAlreadyExists") <=> SaysChainAlreadyExists(last[2])
        /\ interp = "ChainAlreadyExists" =>
               /\ ReturnedErr
               /\ StrContains(ret[2], "is not chain creation")

\* C27 witness: a Flush answered with exit code 1 and "Chain already exists" has made
\* execute fail
C27_Witness ==
    /\ DeletionStepAnswered
    /\ Last(calls).action = Deletion(Flush)
    /\ interp = "ChainAlreadyExists"
    /\ SaysChainAlreadyExists(last[2])
    /\ ReturnedErr

-----------------------------------------------------------------------------
DeletingFlags == {"-D", "-F", "-X"}
CreatingFlags == {"-A", "-I", "-N"}

\* the op-flag of the k-th command issued: the word after <tool> -t <table>
FlagOf(k) == calls[k].cmd[Len(iptables_cmd) + 3]

\* C28: for a list built with push only, a Creation issues no deleting command (-D, -F,
\* -X), a Deletion no creating command (-A, -I, -N), and a Recreation no deleting
\* command after its first creating command; every command is one or the other.
C28_PassSeparation ==
    pc \in {"run", "returned"} =>
        /\ \A k \in 1..Len(calls) : FlagOf(k) \in DeletingFlags \cup CreatingFlags
        /\ want = "Creation" => \A k \in 1..Len(calls) : FlagOf(k) \notin DeletingFlags
        /\ want = "Deletion" => \A k \in 1..Len(calls) : FlagOf(k) \notin CreatingFlags
        /\ want = "Recreation" =>
               \A j, k \in 1..Len(calls) :
                   (j < k /\ FlagOf(j) \in CreatingFlags) => FlagOf(k) \notin DeletingFlags

\* C28 witness: a Recreation of a chain and a rule in it has returned Ok after the
\* deleting commands -D, -F, -X and then the creating commands -N, -A
C28_Witness ==
    /\ ReturnedOk
    /\ want = "Recreation"
    /\ Len(calls) = 5
    /\ <<FlagOf(1), FlagOf(2), FlagOf(3), FlagOf(4), FlagOf(5)>> = <<"-D", "-F", "-X", "-N", "-A">>

-----------------------------------------------------------------------------
\* the number of deletion-sequence steps of the operations of the list that are in ops
RECURSIVE SumUndo(_)
SumUndo(ops) ==
    IF ops = {} THEN 0
    ELSE LET k == CHOOSE x \in ops : TRUE
         IN  Len(DeletionSequence(actions[k][1][2])) + SumUndo(ops \ {k})

OwnedOps == {k \in 1..Len(actions) : actions[k][3] = Owned}

AllAnsweredSuccess == \A k \in 1..Len(calls) : calls[k].success

\* the numbers of commands of C29, for the n operations of the list
CommandCounts ==
    pc \in {"run", "returned"} =>
        LET n == Len(actions)
            c == Len(calls)
        IN  /\ want = "Creation" => c <= n
            /\ want = "Deletion" => c <= 2 * n
            /\ want = "Recreation" => c <= 3 * n
            /\ (ReturnedOk /\ AllAnsweredSuccess) =>
                   /\ want = "Creation" => c = n
                   /\ want = "Deletion" => c = SumUndo(OwnedOps)

\* C29: every call of execute returns (the executor's calls returning), having issued
\* at most n commands under Creation, 2n under Deletion and 3n under Recreation for a
\* list of n pushes; when every answer was a success, exactly n under Creation and
\* exactly the sum of the lengths of the deletion sequences of the Owned operations
\* under Deletion.
C29_TerminatesWithinCounts ==
    /\ []CommandCounts
    /\ (pc = "run") ~> (pc = "returned")

\* C29 witness: a Deletion of an Owned NewChain and a rule that is not Owned has
\* returned Ok after the two commands of the NewChain's deletion sequence
C29_Witness ==
    /\ ReturnedOk
    /\ want = "Deletion"
    /\ AllAnsweredSuccess
    /\ Len(actions) = 2
    /\ OwnedOps = {1}
    /\ actions[1][1] = Creation(NewChain)
    /\ Len(calls) = 2

-----------------------------------------------------------------------------
\* both processes have returned from execute
BothReturned == pc = "returned" /\ other.pc = "returned"

\* the table a call left: the one the tool answers its command with on the table the
\* call found
TableLeftByCall(c) ==
    (CHOOSE a \in TableExecute(c.before[2], c.cmd) : TRUE)[3]

\* every command of a run found the table as the run's command before it had left it:
\* the other run changed nothing in between, as when the two runs are serialized
Undisturbed(cs) ==
    \A k \in 1..(Len(cs) - 1) : cs[k + 1].before[2] = TableLeftByCall(cs[k])

\* C22: execute takes no lock on the table.  When the two Recreations do not get in each
\* other's way (in either serialized order) and one succeeds, both succeed and the
\* table holds each declared rule as often as declared; when their commands interleave,
\* a run that fails and a final table with a rule twice are both reachable (the two
\* witnesses).
C22_SerializedRefresh ==
    (/\ BothReturned
     /\ Undisturbed(calls)
     /\ Undisturbed(other.calls)
     /\ (ret = <<"Ok">> \/ other.ret = <<"Ok">>))
        => /\ ret = <<"Ok">>
           /\ other.ret = <<"Ok">>
           /\ HoldsDeclared(executor[2])

\* C22 witness: the two Recreations of a chain and a jump to it have both returned Ok
\* and the table, empty at first, holds the jump twice
C22_Witness ==
    /\ BothReturned
    /\ ret = <<"Ok">>
    /\ other.ret = <<"Ok">>
    /\ Len(actions) = 2
    /\ ~Undisturbed(calls)
    /\ executor[2]["INPUT"] = <<SpecOf(JumpRule), SpecOf(JumpRule)>>
    /\ ~HoldsDeclared(executor[2])

\* C22 second witness: one of the two Recreations has failed at the insertion of the
\* jump, the other having deleted the chain in between, and the other has returned Ok
C22_WitnessFatal ==
    /\ BothReturned
    /\ other.ret # <<"Ok">>
    /\ ret = <<"Ok">>
    /\ Len(actions) = 2
    /\ ~Undisturbed(other.calls)
    /\ Last(other.calls).action = Creation(Insert(1))

====
